---- MODULE Spec2Model ----
(***************************************************************************)
(* Frame lifecycle of the Vulkan renderer: Application::exec, render and   *)
(* recreate_swapchain, the swapchain-owned objects they rebuild, and the   *)
(* GPU that completes queue submissions asynchronously.                    *)
(*                                                                         *)
(* The control thread is modelled call by call (pc names the call it is    *)
(* about to make); the GPU is a second process that retires submissions.   *)
(* Vulkan handles are modelled by the values that identify what they were  *)
(* built from, so that "entry i refers to image i" is something the        *)
(* construction code decides.  Arrays keep the source's 0-based indices.   *)
(***************************************************************************)
EXTENDS Integers, Sequences, FiniteSets, TLC

\* constexpr std::size_t frames_in_flight = 2;
frames_in_flight == 2

\* Bounds of the model.
\* Number of swapchain generations explored (setup + recreations).
MaxGenerations == 2
\* capabilities.minImageCount ranges over 1..MaxMinImageCount.
MaxMinImageCount == 2
\* Images the driver may create beyond the requested minimum.
MaxDriverExtraImages == 0

FrameSlots == 0 .. (frames_in_flight - 1)

\* vk::Result values render() distinguishes; "error" stands for every other
\* status (device lost, surface lost, out of memory).
Results == {"success", "suboptimal", "out_of_date", "error"}

\* Window sizes Window::get_resolution can report.
Resolutions == {<<0, 0>>, <<0, 900>>, <<1440, 0>>, <<1440, 900>>}

\* (minImageCount, maxImageCount) pairs a surface can report: min >= 1, and
\* max is 0 (no limit) or at least min.
SurfaceCapabilities ==
    {c \in [minImageCount : 1 .. MaxMinImageCount,
            maxImageCount : 0 .. (MaxMinImageCount + 1)] :
        c.maxImageCount = 0 \/ c.maxImageCount >= c.minImageCount}

NullHandle == 0

Size(a) == Cardinality(DOMAIN a)

EmptyArray == [i \in {} |-> NullHandle]

\* An out-of-range read of a std::vector is undefined; it yields no object.
At(a, i) == IF i \in DOMAIN a THEN a[i] ELSE NullHandle

VARIABLES
    pc,                       \* the call the control thread is about to make
    caller,                   \* where recreate_swapchain was called from
    current_frame,            \* size_t current_frame
    in_flight_fences,         \* slot -> fence is signaled
    inflight,                 \* graphics-queue submissions not yet completed
    frame_buffer_resized,     \* bool frame_buffer_resized
    res,                      \* recreate_swapchain's local Resolution res
    image_index,              \* render's local image_index
    generation,               \* number of create_swap_chain calls so far
    swapchain_,
    swapchain_images_,
    swapchain_image_views_,
    render_pass_,
    graphics_pipeline_,
    depth_image_,
    depth_image_view_,
    swapchain_framebuffers_,
    uniform_buffers_,
    descriptor_pool_,
    descriptor_sets_,
    command_buffers_,
    pool_command_buffers,     \* command buffers allocated from command_pool_
    log,                      \* calls made since the current render() began
    entry_frame,              \* current_frame when the current render() began
    call,                     \* the free function being applied, with its arguments
    ret,                      \* what that call returned or threw
    upc,                      \* the buffer utility's position
    live,                     \* Vulkan objects the utility created and not destroyed
    recorded,                 \* commands recorded in its one-time command buffer
    queue,                    \* its submissions the queue has not finished
    steps,                    \* the calls the utility has made, in order
    image_available_semaphores, \* per slot: 0 unsignaled, 1 signaled, 2 signaled twice
    render_finished_semaphores, \* per slot: 0 unsignaled, 1 signaled, 2 signaled twice
    exit_code,                \* what main returned ("running" before that)
    stderr_out                \* lines written to standard error

swapchain_vars ==
    <<generation, swapchain_, swapchain_images_,
      swapchain_image_views_, render_pass_, graphics_pipeline_, depth_image_,
      depth_image_view_, swapchain_framebuffers_, uniform_buffers_,
      descriptor_pool_, descriptor_sets_, command_buffers_,
      pool_command_buffers>>

frame_locals == <<image_index>>

\* The binary semaphores of the frame slots.  A semaphore is 0 when no
\* signal operation is outstanding on it, 1 when one is, and 2 when a signal
\* operation was queued on it while one was outstanding; a wait is satisfied
\* by whichever signal comes first and leaves the semaphore unsignaled.
semaphore_vars == <<image_available_semaphores, render_finished_semaphores>>

history_vars == <<entry_frame>>

\* State of the free functions (swapchain choices, buffer utilities) when they
\* are exercised on their own.
util_vars == <<upc, live, recorded, queue, steps>>

process_vars == <<exit_code, stderr_out>>

unit_vars == <<call, ret, util_vars, process_vars>>

vars ==
    <<pc, caller, current_frame, in_flight_fences, inflight,
      frame_buffer_resized, res, frame_locals, semaphore_vars,
      swapchain_vars, log,
      history_vars, unit_vars>>

(***************************************************************************)
(* Construction of the swapchain-owned objects.                            *)
(***************************************************************************)

\* Variant of the image count without the cap by maxImageCount.
ImageCount_NoCap(caps) == caps.minImageCount + 1

\* image_count of create_swap_chain: minImageCount + 1, capped by a nonzero
\* maxImageCount.
ImageCount(caps) ==
    LET image_count == caps.minImageCount + 1
    IN  IF caps.maxImageCount > 0 /\ image_count > caps.maxImageCount
        THEN caps.maxImageCount
        ELSE image_count

\* Sizes getSwapchainImagesKHR may return for a swapchain created with
\* minImageCount = ImageCount(caps): at least the request, within the cap.
DriverImageCounts(caps) ==
    {n \in ImageCount(caps) .. (ImageCount(caps) + MaxDriverExtraImages) :
        caps.maxImageCount = 0 \/ n <= caps.maxImageCount}

\* swapchain_images_ = device_->getSwapchainImagesKHR(swapchain_.get())
SwapchainImages(swapchain, n) ==
    [i \in 0 .. (n - 1) |-> [swapchain |-> swapchain, index |-> i]]

\* create_swapchain_image_views: clear(), then one view per image, in order.
ImageViews(old_views, images) ==
    [i \in DOMAIN images |-> [image |-> images[i]]]

\* Variant of create_frame_buffers without the clear(): the new framebuffers
\* are appended to the old ones.
FrameBuffers_NoClear(old_framebuffers, views, render_pass, depth_view) ==
    LET kept == Size(old_framebuffers)
    IN  [i \in 0 .. (kept + Size(views) - 1) |->
            IF i < kept
            THEN old_framebuffers[i]
            ELSE [view |-> views[i - kept], render_pass |-> render_pass,
                  depth |-> depth_view]]

\* create_frame_buffers: clear(), then one framebuffer per image view.
FrameBuffers(old_framebuffers, views, render_pass, depth_view) ==
    [i \in DOMAIN views |->
        [view |-> views[i], render_pass |-> render_pass, depth |-> depth_view]]

\* create_uniform_buffers: resize to the image count, then a new buffer in
\* every slot.
UniformBuffers(old_buffers, images, gen) ==
    [i \in 0 .. (Size(images) - 1) |-> [generation |-> gen, index |-> i]]

\* create_descriptor_sets: one set per swapchain image, set i bound to
\* uniform_buffers_[i].
DescriptorSets(images, pool, buffers) ==
    [i \in 0 .. (Size(images) - 1) |->
        [pool |-> pool, uniform_buffer |-> At(buffers, i)]]

\* Variant of create_command_buffers that records only the buffers the vector
\* did not hold before: a buffer recorded for an earlier swapchain is kept.
CommandBuffers_Stale(old_command_buffers, framebuffers, render_pass, pipeline, sets, gen) ==
    [i \in 0 .. (Size(framebuffers) - 1) |->
        IF i \in DOMAIN old_command_buffers
        THEN old_command_buffers[i]
        ELSE [generation |-> gen, index |-> i,
              render_pass |-> render_pass,
              framebuffer |-> At(framebuffers, i),
              pipeline |-> pipeline,
              descriptor_set |-> At(sets, i)]]

\* create_command_buffers: one buffer per framebuffer, buffer i recorded
\* against framebuffer i, the pipeline and descriptor set i.
CommandBuffers(old_command_buffers, framebuffers, render_pass, pipeline, sets, gen) ==
    [i \in 0 .. (Size(framebuffers) - 1) |->
        [generation |-> gen, index |-> i,
         render_pass |-> render_pass,
         framebuffer |-> At(framebuffers, i),
         pipeline |-> pipeline,
         descriptor_set |-> At(sets, i)]]

\* The handles vkAllocateCommandBuffers returned for an array.
Handles(buffers) ==
    {<<buffers[i].generation, buffers[i].index>> : i \in DOMAIN buffers}

\* No free function is being exercised.
NoCall == [op |-> "none"]

NoResult == [kind |-> "none"]

UnitIdle ==
    /\ call = NoCall
    /\ ret = NoResult
    /\ upc = "idle"
    /\ live = {}
    /\ recorded = <<>>
    /\ queue = {}
    /\ steps = <<>>
    /\ exit_code = "running"
    /\ stderr_out = <<>>

\* Variant of create_sync_objects with a default vk::FenceCreateInfo: the
\* fences are created unsignaled.
CreateFences_Unsignaled == [k \in FrameSlots |-> FALSE]

\* create_sync_objects: a fence per frame slot, each created with
\* vk::FenceCreateFlagBits::eSignaled.
CreateFences == [k \in FrameSlots |-> TRUE]

(***************************************************************************)
(* State after Application's constructor.                                  *)
(***************************************************************************)
Init ==
    \E caps \in SurfaceCapabilities :
      \E n \in DriverImageCounts(caps) :
        LET images == SwapchainImages(1, n)
            views == ImageViews(EmptyArray, images)
            dview == [image |-> 1]
            fbs == FrameBuffers(EmptyArray, views, 1, dview)
            ubs == UniformBuffers(EmptyArray, images, 1)
            sets == DescriptorSets(images, 1, ubs)
            pipeline == [generation |-> 1, render_pass |-> 1]
            cbs == CommandBuffers(EmptyArray, fbs, 1, pipeline, sets, 1)
        IN  /\ pc = "exec"
            /\ caller = "none"
            /\ current_frame = 0
            /\ in_flight_fences = CreateFences
            /\ inflight = {}
            /\ image_available_semaphores = [k \in FrameSlots |-> 0]
            /\ render_finished_semaphores = [k \in FrameSlots |-> 0]
            /\ frame_buffer_resized = FALSE
            /\ res = <<0, 0>>
            /\ image_index = 0
            /\ generation = 1
            /\ swapchain_ = 1
            /\ swapchain_images_ = images
            /\ swapchain_image_views_ = views
            /\ render_pass_ = 1
            /\ graphics_pipeline_ = pipeline
            /\ depth_image_ = 1
            /\ depth_image_view_ = dview
            /\ swapchain_framebuffers_ = fbs
            /\ uniform_buffers_ = ubs
            /\ descriptor_pool_ = 1
            /\ descriptor_sets_ = sets
            /\ command_buffers_ = cbs
            /\ pool_command_buffers = Handles(cbs)
            /\ log = <<>>
            /\ entry_frame = 0
            /\ UnitIdle

(***************************************************************************)
(* Application::exec and Application::render.                              *)
(***************************************************************************)

\* Variant of the test after acquire that also reads the resize flag, as the
\* test after presentKHR does.
AcquireAborts_OrResized(r) ==
    r \in {"out_of_date", "suboptimal"} \/ frame_buffer_resized

\* if (result == eErrorOutOfDateKHR || result == eSuboptimalKHR)
AcquireAborts(r) == r \in {"out_of_date", "suboptimal"}

\* Variant of the test after presentKHR that does not read the resize flag.
PresentRecreates_IgnoresFlag(r2, resized) == r2 \in {"out_of_date", "suboptimal"}

\* if (result2 == eErrorOutOfDateKHR || result2 == eSuboptimalKHR ||
\*     frame_buffer_resized)
PresentRecreates(r2, resized) == r2 \in {"out_of_date", "suboptimal"} \/ resized

\* Variant without the return after the recreate_swapchain call at acquire.
RecreateReturn_NoReturn(c) == "advance"

\* Where control goes when recreate_swapchain returns: render() returns right
\* after the call at acquire; after the call at present it goes on to advance
\* current_frame.
RecreateReturn(c) == IF c = "acquire" THEN "exec" ELSE "advance"

\* while (!window_.should_close()) { window_.poll_events(); render(); }
\* should_close is what GLFW reports; poll_events runs the callbacks of the
\* queued events, among them framebuffer_resize_callback.
Exec ==
    /\ UNCHANGED unit_vars
    /\ pc = "exec"
    /\ \E should_close \in BOOLEAN :
         IF should_close
         THEN /\ pc' = "exec_waitIdle"
              /\ UNCHANGED <<frame_buffer_resized, log, history_vars>>
         ELSE /\ \E resized \in BOOLEAN :
                    frame_buffer_resized' = (frame_buffer_resized \/ resized)
              /\ pc' = "waitForFences"
              /\ log' = <<>>
              /\ entry_frame' = current_frame
    /\ UNCHANGED <<caller, current_frame, in_flight_fences, inflight, res,
                   frame_locals, semaphore_vars, swapchain_vars>>

\* device_->waitIdle() after the loop.
ExecWaitIdle ==
    /\ UNCHANGED unit_vars
    /\ pc = "exec_waitIdle"
    /\ inflight = {}
    /\ pc' = "done"
    /\ UNCHANGED <<caller, current_frame, in_flight_fences, inflight,
                   frame_buffer_resized, res, frame_locals, semaphore_vars,
                   swapchain_vars,
                   log, history_vars>>

\* Variant that resets the slot's fence as soon as the wait on it returned,
\* before the acquire.
WaitForFences_ThenReset ==
    /\ UNCHANGED unit_vars
    /\ pc = "waitForFences"
    /\ in_flight_fences[current_frame]
    /\ in_flight_fences' = [in_flight_fences EXCEPT ![current_frame] = FALSE]
    /\ pc' = "acquireNextImageKHR"
    /\ log' = Append(log, "waitForFences")
    /\ UNCHANGED <<caller, current_frame, inflight, frame_buffer_resized, res,
                   frame_locals, semaphore_vars, swapchain_vars, history_vars>>

\* Variant that goes on to the acquire without waiting for the slot's fence.
WaitForFences_NoWait ==
    /\ UNCHANGED unit_vars
    /\ pc = "waitForFences"
    /\ pc' = "acquireNextImageKHR"
    /\ log' = Append(log, "waitForFences")
    /\ UNCHANGED <<caller, current_frame, in_flight_fences, inflight,
                   frame_buffer_resized, res, frame_locals, semaphore_vars,
                   swapchain_vars, history_vars>>

\* device_->waitForFences(1, &in_flight_fences[current_frame], true, max)
WaitForFences ==
    /\ UNCHANGED unit_vars
    /\ pc = "waitForFences"
    /\ in_flight_fences[current_frame]
    /\ pc' = "acquireNextImageKHR"
    /\ log' = Append(log, "waitForFences")
    /\ UNCHANGED <<caller, current_frame, in_flight_fences, inflight,
                   frame_buffer_resized, res, frame_locals, semaphore_vars,
                   swapchain_vars,
                   history_vars>>

\* The log entry of an acquire (a present) that returned r.
AcquireEvent ==
    [r \in Results |->
        CASE r = "success" -> "acquireNextImageKHR:success"
          [] r = "suboptimal" -> "acquireNextImageKHR:suboptimal"
          [] r = "out_of_date" -> "acquireNextImageKHR:out_of_date"
          [] OTHER -> "acquireNextImageKHR:error"]

PresentEvent ==
    [r \in Results |->
        CASE r = "success" -> "presentKHR:success"
          [] r = "suboptimal" -> "presentKHR:suboptimal"
          [] r = "out_of_date" -> "presentKHR:out_of_date"
          [] OTHER -> "presentKHR:error"]

\* Indices acquireNextImageKHR may return.  The application holds no acquired
\* image when it calls acquire (each one was handed back by presentKHR or went
\* with its swapchain), and Vulkan does not order the indices returned: the
\* semaphore, not the index, says when the image may be written.
AcquirableImages == DOMAIN swapchain_images_

\* A signal operation queued on semaphore k.
Signal(semaphores, k) == [semaphores EXCEPT ![k] = IF @ = 0 THEN 1 ELSE 2]

\* A wait operation queued on semaphore k: it unsignals the semaphore.
Wait(semaphores, k) == [semaphores EXCEPT ![k] = 0]

\* acquireNextImageKHR hands its semaphore to the presentation engine when it
\* returns an image, which it does with the success codes eSuccess and
\* eSuboptimalKHR; with an error code the semaphore is left alone.
AcquireSignals(r) == r \in {"success", "suboptimal"}

\* acquireNextImageKHR and the test of its result.  A status other than
\* success, suboptimal and out-of-date stops at assert(result == eSuccess) in
\* a debug build; with NDEBUG the assert is gone and render goes on with
\* whatever image_index holds.
AcquireNextImage ==
    /\ UNCHANGED unit_vars
    /\ pc = "acquireNextImageKHR"
    /\ \E r \in Results :
         /\ log' = Append(log, AcquireEvent[r])
         /\ image_available_semaphores' =
                IF AcquireSignals(r)
                THEN Signal(image_available_semaphores, current_frame)
                ELSE image_available_semaphores
         /\ IF AcquireAborts(r)
            THEN /\ pc' = "recreate_swapchain"
                 /\ caller' = "acquire"
                 /\ UNCHANGED image_index
            ELSE IF r = "success"
            THEN /\ \E i \in AcquirableImages : image_index' = i
                 /\ pc' = "update_uniform_buffer"
                 /\ UNCHANGED caller
            ELSE \/ /\ pc' = "terminated"
                    /\ UNCHANGED <<caller, image_index>>
                 \/ /\ \E i \in DOMAIN swapchain_images_ : image_index' = i
                    /\ pc' = "update_uniform_buffer"
                    /\ UNCHANGED caller
    /\ UNCHANGED <<current_frame, in_flight_fences, inflight,
                   frame_buffer_resized, res, render_finished_semaphores,
                   swapchain_vars, history_vars>>

\* The submissions still pending that read uniform buffer ub.
ReadersOf(ub) ==
    {s \in inflight : s.command_buffer.descriptor_set.uniform_buffer = ub}

\* Variant that uploads the uniform data through a staging buffer
\* (create_buffer_from_data), a one-shot copy followed by queue.waitIdle().
UpdateUniformBuffer_Staged ==
    /\ UNCHANGED unit_vars
    /\ pc = "update_uniform_buffer"
    /\ log' = log \o <<"update_uniform_buffer", "copy_buffer">>
    /\ pc' = "resetFences"
    /\ UNCHANGED <<caller, current_frame, in_flight_fences, inflight,
                   frame_buffer_resized, res, frame_locals, semaphore_vars,
                   swapchain_vars,
                   history_vars>>

\* update_uniform_buffer(image_index): map, memcpy, unmap of
\* uniform_buffers_memory_[image_index].
UpdateUniformBuffer ==
    /\ UNCHANGED unit_vars
    /\ pc = "update_uniform_buffer"
    /\ log' = Append(log, "update_uniform_buffer")
    /\ pc' = "resetFences"
    /\ UNCHANGED <<caller, current_frame, in_flight_fences, inflight,
                   frame_buffer_resized, res, frame_locals, semaphore_vars,
                   swapchain_vars,
                   history_vars>>

\* device_->resetFences(1, &in_flight_fences[current_frame])
ResetFences ==
    /\ UNCHANGED unit_vars
    /\ pc = "resetFences"
    /\ in_flight_fences' = [in_flight_fences EXCEPT ![current_frame] = FALSE]
    /\ log' = Append(log, "resetFences")
    /\ pc' = "submit"
    /\ UNCHANGED <<caller, current_frame, inflight, frame_buffer_resized, res,
                   frame_locals, semaphore_vars, swapchain_vars, history_vars>>

\* Variant that picks the command buffer by the frame slot instead of the
\* image index.
Submit_BySlot ==
    /\ UNCHANGED unit_vars
    /\ pc = "submit"
    /\ image_available_semaphores' =
           Wait(image_available_semaphores, current_frame)
    /\ render_finished_semaphores' =
           Signal(render_finished_semaphores, current_frame)
    /\ inflight' =
           inflight \cup {[fence |-> current_frame,
                           command_buffer |-> At(command_buffers_, current_frame)]}
    /\ log' = Append(log, "submit")
    /\ pc' = "presentKHR"
    /\ UNCHANGED <<caller, current_frame, in_flight_fences,
                   frame_buffer_resized, res, frame_locals, swapchain_vars,
                   history_vars>>

\* graphics_queue_.submit(1, &submit_info, in_flight_fences[current_frame])
\* with pCommandBuffers = &command_buffers_[image_index], pWaitSemaphores =
\* &image_available_semaphores[current_frame] and pSignalSemaphores =
\* &render_finished_semaphores[current_frame]
Submit ==
    /\ UNCHANGED unit_vars
    /\ pc = "submit"
    /\ image_available_semaphores' =
           Wait(image_available_semaphores, current_frame)
    /\ render_finished_semaphores' =
           Signal(render_finished_semaphores, current_frame)
    /\ inflight' =
           inflight \cup {[fence |-> current_frame,
                           command_buffer |-> command_buffers_[image_index]]}
    /\ log' = Append(log, "submit")
    /\ pc' = "presentKHR"
    /\ UNCHANGED <<caller, current_frame, in_flight_fences,
                   frame_buffer_resized, res, frame_locals, swapchain_vars,
                   history_vars>>

\* present_queue_.presentKHR(&present_info) and the test of result2.  The log
\* keeps what the test read: the status, and the resize flag when it was set.
\* Nothing reads image_index after the present request.  The request waits
\* on render_finished_semaphores[current_frame], whatever status it returns.
PresentKHR ==
    /\ UNCHANGED unit_vars
    /\ pc = "presentKHR"
    /\ image_index' = 0
    /\ render_finished_semaphores' =
           Wait(render_finished_semaphores, current_frame)
    /\ \E r2 \in Results :
         /\ log' = log \o <<PresentEvent[r2]>> \o
                       (IF frame_buffer_resized
                        THEN <<"frame_buffer_resized">> ELSE <<>>)
         /\ IF PresentRecreates(r2, frame_buffer_resized)
            THEN /\ pc' = "recreate_swapchain"
                 /\ caller' = "present"
            ELSE /\ pc' = "advance"
                 /\ UNCHANGED caller
    /\ UNCHANGED <<current_frame, in_flight_fences, inflight,
                   frame_buffer_resized, res, image_available_semaphores,
                   swapchain_vars, history_vars>>

\* Variant that advances current_frame without wrapping around.
Advance_NoWrap ==
    /\ UNCHANGED unit_vars
    /\ pc = "advance"
    /\ current_frame' = current_frame + 1
    /\ log' = Append(log, "advance")
    /\ pc' = "exec"
    /\ UNCHANGED <<caller, in_flight_fences, inflight, frame_buffer_resized,
                   res, frame_locals, semaphore_vars, swapchain_vars,
                   history_vars>>

\* current_frame = (current_frame + 1) % frames_in_flight, and render returns.
Advance ==
    /\ UNCHANGED unit_vars
    /\ pc = "advance"
    /\ current_frame' = (current_frame + 1) % frames_in_flight
    /\ log' = Append(log, "advance")
    /\ pc' = "exec"
    /\ UNCHANGED <<caller, in_flight_fences, inflight, frame_buffer_resized,
                   res, frame_locals, semaphore_vars, swapchain_vars, history_vars>>

\* The GPU retires a pending submission and signals the fence it was
\* submitted with.
GPUComplete ==
    /\ UNCHANGED unit_vars
    /\ \E s \in inflight :
         /\ inflight' = inflight \ {s}
         /\ in_flight_fences' = [in_flight_fences EXCEPT ![s.fence] = TRUE]
    /\ UNCHANGED <<pc, caller, current_frame, frame_buffer_resized, res,
                   frame_locals, semaphore_vars, swapchain_vars, log, history_vars>>

(***************************************************************************)
(* Application::recreate_swapchain, one action per call it makes.  A       *)
(* vk::Unique handle destroys the object it held when it is reset or       *)
(* assigned; the log records each creation and destruction in the order    *)
(* the code performs them.                                                 *)
(***************************************************************************)

\* while (res.width == 0 && res.height == 0)
WindowMinimized(r) == r[1] = 0 /\ r[2] = 0

\* A step of recreate_swapchain that leaves render's and the GPU's state alone.
RecreateStep(from, to, events) ==
    /\ UNCHANGED unit_vars
    /\ pc = from
    /\ pc' = to
    /\ log' = log \o events
    /\ UNCHANGED <<caller, current_frame, in_flight_fences, inflight,
                   frame_locals, semaphore_vars, history_vars>>

\* frame_buffer_resized = false; Resolution res{0, 0};
RecreateSwapchain ==
    /\ generation < MaxGenerations
    /\ RecreateStep("recreate_swapchain", "get_resolution",
                    <<"recreate_swapchain">>)
    /\ frame_buffer_resized' = FALSE
    /\ res' = <<0, 0>>
    /\ UNCHANGED swapchain_vars

\* res = window_.get_resolution();
GetResolution ==
    /\ RecreateStep("get_resolution", "glfwWaitEvents", <<>>)
    /\ \E r \in Resolutions : res' = r
    /\ UNCHANGED <<frame_buffer_resized, swapchain_vars>>

\* glfwWaitEvents(), which runs the callbacks of the events it receives, and
\* the loop test that follows it.  res is not read after the loop.
GlfwWaitEvents ==
    /\ RecreateStep("glfwWaitEvents",
                    IF WindowMinimized(res) THEN "get_resolution" ELSE "waitIdle",
                    <<>>)
    /\ \E resized \in BOOLEAN :
         frame_buffer_resized' = (frame_buffer_resized \/ resized)
    /\ res' = <<0, 0>>
    /\ UNCHANGED swapchain_vars

\* Variant in which recreation does not wait for the device.
DeviceIdle_NoWait == TRUE

\* device_->waitIdle() returns once no submission is pending.
DeviceIdle == inflight = {}

\* Variant in which the resize flag is cleared after the event wait instead
\* of at the start of recreate_swapchain.
WaitIdle_ClearsFlag ==
    /\ inflight = {}
    /\ RecreateStep("waitIdle", "swapchain_reset", <<"waitIdle">>)
    /\ frame_buffer_resized' = FALSE
    /\ UNCHANGED <<res, swapchain_vars>>

\* device_->waitIdle();
WaitIdle ==
    /\ DeviceIdle
    /\ RecreateStep("waitIdle", "swapchain_reset", <<"waitIdle">>)
    /\ UNCHANGED <<frame_buffer_resized, res, swapchain_vars>>

\* Variant without swapchain_.reset(): the old swapchain lives until the new
\* one is assigned.
SwapchainReset_Missing ==
    /\ RecreateStep("swapchain_reset", "create_swap_chain", <<>>)
    /\ UNCHANGED <<frame_buffer_resized, res, swapchain_vars>>

\* swapchain_.reset();
SwapchainReset ==
    /\ RecreateStep("swapchain_reset", "create_swap_chain",
                    IF swapchain_ # NullHandle
                    THEN <<"destroy:swapchain">> ELSE <<>>)
    /\ swapchain_' = NullHandle
    /\ UNCHANGED <<frame_buffer_resized, res, generation,
                   swapchain_images_, swapchain_image_views_, render_pass_,
                   graphics_pipeline_, depth_image_, depth_image_view_,
                   swapchain_framebuffers_, uniform_buffers_, descriptor_pool_,
                   descriptor_sets_, command_buffers_, pool_command_buffers>>

\* create_swap_chain(): query the surface, create the swapchain with
\* minImageCount = image_count, fetch its images.
CreateSwapChain ==
    /\ \E caps \in SurfaceCapabilities :
         \E n \in DriverImageCounts(caps) :
           /\ generation' = generation + 1
           /\ swapchain_' = generation + 1
           /\ swapchain_images_' = SwapchainImages(generation + 1, n)
    /\ RecreateStep("create_swap_chain", "create_swapchain_image_views",
                    (IF swapchain_ # NullHandle
                     THEN <<"create:swapchain", "destroy:swapchain">>
                     ELSE <<"create:swapchain">>))
    /\ UNCHANGED <<frame_buffer_resized, res, swapchain_image_views_,
                   render_pass_, graphics_pipeline_, depth_image_,
                   depth_image_view_, swapchain_framebuffers_, uniform_buffers_,
                   descriptor_pool_, descriptor_sets_, command_buffers_,
                   pool_command_buffers>>

\* create_swapchain_image_views()
CreateSwapchainImageViews ==
    /\ RecreateStep("create_swapchain_image_views", "create_render_pass",
                    <<"destroy:image_views", "create:image_views">>)
    /\ swapchain_image_views_' =
           ImageViews(swapchain_image_views_, swapchain_images_)
    /\ UNCHANGED <<frame_buffer_resized, res, generation,
                   swapchain_, swapchain_images_, render_pass_,
                   graphics_pipeline_, depth_image_, depth_image_view_,
                   swapchain_framebuffers_, uniform_buffers_, descriptor_pool_,
                   descriptor_sets_, command_buffers_, pool_command_buffers>>

\* create_render_pass(): render_pass_ = createRenderPassUnique(...)
CreateRenderPass ==
    /\ RecreateStep("create_render_pass", "create_graphics_pipelines",
                    <<"create:render_pass", "destroy:render_pass">>)
    /\ render_pass_' = generation
    /\ UNCHANGED <<frame_buffer_resized, res, generation,
                   swapchain_, swapchain_images_, swapchain_image_views_,
                   graphics_pipeline_, depth_image_, depth_image_view_,
                   swapchain_framebuffers_, uniform_buffers_, descriptor_pool_,
                   descriptor_sets_, command_buffers_, pool_command_buffers>>

\* create_graphics_pipelines(): built against *render_pass_
CreateGraphicsPipelines ==
    /\ RecreateStep("create_graphics_pipelines", "create_depth_resource",
                    <<"create:pipeline", "destroy:pipeline">>)
    /\ graphics_pipeline_' =
           [generation |-> generation, render_pass |-> render_pass_]
    /\ UNCHANGED <<frame_buffer_resized, res, generation,
                   swapchain_, swapchain_images_, swapchain_image_views_,
                   render_pass_, depth_image_, depth_image_view_,
                   swapchain_framebuffers_, uniform_buffers_, descriptor_pool_,
                   descriptor_sets_, command_buffers_, pool_command_buffers>>

\* create_depth_resource(): image and memory, then the view, then the layout
\* transition (a one-shot submission followed by queue.waitIdle()).
CreateDepthResource ==
    /\ RecreateStep("create_depth_resource", "create_frame_buffers",
                    <<"create:depth_image", "destroy:depth_image",
                      "create:depth_image_view", "destroy:depth_image_view",
                      "transition_image_layout">>)
    /\ depth_image_' = generation
    /\ depth_image_view_' = [image |-> generation]
    /\ UNCHANGED <<frame_buffer_resized, res, generation,
                   swapchain_, swapchain_images_, swapchain_image_views_,
                   render_pass_, graphics_pipeline_, swapchain_framebuffers_,
                   uniform_buffers_, descriptor_pool_, descriptor_sets_,
                   command_buffers_, pool_command_buffers>>

\* create_frame_buffers()
CreateFrameBuffers ==
    /\ RecreateStep("create_frame_buffers", "create_uniform_buffers",
                    <<"destroy:framebuffers", "create:framebuffers">>)
    /\ swapchain_framebuffers_' =
           FrameBuffers(swapchain_framebuffers_, swapchain_image_views_,
                        render_pass_, depth_image_view_)
    /\ UNCHANGED <<frame_buffer_resized, res, generation,
                   swapchain_, swapchain_images_, swapchain_image_views_,
                   render_pass_, graphics_pipeline_, depth_image_,
                   depth_image_view_, uniform_buffers_, descriptor_pool_,
                   descriptor_sets_, command_buffers_, pool_command_buffers>>

\* create_uniform_buffers()
CreateUniformBuffers ==
    /\ RecreateStep("create_uniform_buffers", "create_descriptor_pool",
                    <<"create:uniform_buffers", "destroy:uniform_buffers">>)
    /\ uniform_buffers_' =
           UniformBuffers(uniform_buffers_, swapchain_images_, generation)
    /\ UNCHANGED <<frame_buffer_resized, res, generation,
                   swapchain_, swapchain_images_, swapchain_image_views_,
                   render_pass_, graphics_pipeline_, depth_image_,
                   depth_image_view_, swapchain_framebuffers_,
                   descriptor_pool_, descriptor_sets_, command_buffers_,
                   pool_command_buffers>>

\* create_descriptor_pool(): the old pool goes, and its sets with it.
CreateDescriptorPool ==
    /\ RecreateStep("create_descriptor_pool", "create_descriptor_sets",
                    <<"create:descriptor_pool", "destroy:descriptor_pool">>)
    /\ descriptor_pool_' = generation
    /\ UNCHANGED <<frame_buffer_resized, res, generation,
                   swapchain_, swapchain_images_, swapchain_image_views_,
                   render_pass_, graphics_pipeline_, depth_image_,
                   depth_image_view_, swapchain_framebuffers_, uniform_buffers_,
                   descriptor_sets_, command_buffers_, pool_command_buffers>>

\* create_descriptor_sets()
CreateDescriptorSets ==
    /\ RecreateStep("create_descriptor_sets", "create_command_buffers",
                    <<"create:descriptor_sets">>)
    /\ descriptor_sets_' =
           DescriptorSets(swapchain_images_, descriptor_pool_, uniform_buffers_)
    /\ UNCHANGED <<frame_buffer_resized, res, generation,
                   swapchain_, swapchain_images_, swapchain_image_views_,
                   render_pass_, graphics_pipeline_, depth_image_,
                   depth_image_view_, swapchain_framebuffers_, uniform_buffers_,
                   descriptor_pool_, command_buffers_, pool_command_buffers>>

\* create_command_buffers(), after which recreate_swapchain returns.  The
\* buffers are allocated from command_pool_; the ones the vector held before
\* are not freed.
CreateCommandBuffers ==
    /\ UNCHANGED unit_vars
    /\ pc = "create_command_buffers"
    /\ LET cbs == CommandBuffers(command_buffers_, swapchain_framebuffers_,
                                 render_pass_, graphics_pipeline_,
                                 descriptor_sets_, generation)
       IN  /\ command_buffers_' = cbs
           /\ pool_command_buffers' = pool_command_buffers \cup Handles(cbs)
    /\ log' = log \o <<"create:command_buffers", "recreate_swapchain:return">>
    /\ pc' = RecreateReturn(caller)
    /\ caller' = "none"
    /\ UNCHANGED <<current_frame, in_flight_fences, inflight,
                   frame_buffer_resized, res, frame_locals, semaphore_vars,
                   generation,
                   swapchain_,
                   swapchain_images_, swapchain_image_views_, render_pass_,
                   graphics_pipeline_, depth_image_, depth_image_view_,
                   swapchain_framebuffers_, uniform_buffers_, descriptor_pool_,
                   descriptor_sets_, history_vars>>

Render ==
    \/ WaitForFences
    \/ AcquireNextImage
    \/ UpdateUniformBuffer
    \/ ResetFences
    \/ Submit
    \/ PresentKHR
    \/ Advance

Recreate ==
    \/ RecreateSwapchain
    \/ GetResolution
    \/ GlfwWaitEvents
    \/ WaitIdle
    \/ SwapchainReset
    \/ CreateSwapChain
    \/ CreateSwapchainImageViews
    \/ CreateRenderPass
    \/ CreateGraphicsPipelines
    \/ CreateDepthResource
    \/ CreateFrameBuffers
    \/ CreateUniformBuffers
    \/ CreateDescriptorPool
    \/ CreateDescriptorSets
    \/ CreateCommandBuffers

\* The control thread.
Control == Exec \/ ExecWaitIdle \/ Render \/ Recreate

Next == Control \/ GPUComplete

Spec == Init /\ [][Next]_vars

\* The control thread's steps other than the return of glfwWaitEvents, which
\* needs a window event to arrive.
Running ==
    \/ Exec
    \/ ExecWaitIdle
    \/ Render
    \/ (Recreate /\ pc # "glfwWaitEvents")

\* The control thread keeps running and the GPU finishes what it was given;
\* nothing makes the window system deliver an event.
FairSpec == Spec /\ WF_vars(Running) /\ WF_vars(GPUComplete)

\* As FairSpec, with a window system that keeps delivering events, so that
\* glfwWaitEvents returns whenever it is called.
EventSpec == FairSpec /\ WF_vars(GlfwWaitEvents)

(***************************************************************************)
(* Properties.                                                             *)
(***************************************************************************)

Has(e) == \E i \in DOMAIN log : log[i] = e

Count(e) == Cardinality({i \in DOMAIN log : log[i] = e})

\* Position of the first e in the log (0 when there is none).
First(e) ==
    IF Has(e) THEN CHOOSE i \in DOMAIN log :
                     log[i] = e /\ \A j \in 1 .. (i - 1) : log[j] # e
    ELSE 0

AcquireSucceeded == Has("acquireNextImageKHR:success")

AcquireStale ==
    Has("acquireNextImageKHR:out_of_date") \/ Has("acquireNextImageKHR:suboptimal")

PresentStale ==
    Has("presentKHR:out_of_date") \/ Has("presentKHR:suboptimal")

Presented == \E r \in Results : Has(PresentEvent[r])

\* The swapchain has at least as many images as there are frame slots.
SlotsFitImages == Size(swapchain_images_) >= frames_in_flight

\* C1: in a render() call whose acquire succeeded, on a swapchain with at
\* least as many images as frame slots, the command buffer about to be
\* submitted has no earlier submission still pending, and the wait on the
\* slot's fence has completed in this call.
C1_FenceDiscipline ==
    (pc = "submit" /\ AcquireSucceeded /\ SlotsFitImages) =>
        /\ \A s \in inflight : s.command_buffer # command_buffers_[image_index]
        /\ Has("waitForFences")

\* C2: in a render() call whose acquire succeeded, on a swapchain with at
\* least as many images as frame slots, no pending submission reads the
\* uniform buffer that update_uniform_buffer(image_index) is about to write.
C2_NoUniformWriteRace ==
    (pc = "update_uniform_buffer" /\ AcquireSucceeded /\ SlotsFitImages) =>
        ReadersOf(uniform_buffers_[image_index]) = {}

\* Position of the present request in the log (0 when there is none).
PresentAt ==
    IF Presented
    THEN CHOOSE i \in DOMAIN log : \E r \in Results : log[i] = PresentEvent[r]
    ELSE 0

\* The calls recreate_swapchain has made so far in this render() call.
RecreateCalls == IF pc = "recreate_swapchain" THEN 0 ELSE 1

Returned == pc \in {"exec", "exec_waitIdle", "done"}

\* C3: after an out-of-date or suboptimal acquire, render() calls
\* recreate_swapchain once and returns: no uniform update, no fence reset (the
\* slot's fence stays signaled), no submission, no present, and current_frame
\* is the one the call started with.
C3_AcquireAbort ==
    AcquireStale =>
        /\ ~Has("update_uniform_buffer")
        /\ ~Has("resetFences")
        /\ ~Has("submit")
        /\ ~Presented
        /\ ~Has("advance")
        /\ current_frame = entry_frame
        /\ in_flight_fences[current_frame]
        /\ Count("recreate_swapchain") = RecreateCalls
        /\ (Has("recreate_swapchain:return") => Returned)

C3_Witness ==
    /\ pc = "exec"
    /\ Has("acquireNextImageKHR:suboptimal")
    /\ Has("recreate_swapchain:return")

\* C4: when presentKHR reports out-of-date or suboptimal, or the resize flag
\* is set at that test, render() recreates the swapchain exactly once, after
\* the submission and the present request, and still advances current_frame.
C4_PresentRecreate ==
    (PresentStale \/ Has("frame_buffer_resized")) =>
        /\ Has("submit")
        /\ First("submit") < PresentAt
        /\ Count("recreate_swapchain") = RecreateCalls
        /\ (Has("recreate_swapchain") => PresentAt < First("recreate_swapchain"))
        /\ (Has("recreate_swapchain:return") => (pc = "advance" \/ Has("advance")))
        /\ (Returned => Has("advance"))
        /\ current_frame = (IF Has("advance")
                            THEN (entry_frame + 1) % frames_in_flight
                            ELSE entry_frame)

C4_Witness ==
    /\ pc = "exec"
    /\ Has("presentKHR:success")
    /\ Has("frame_buffer_resized")
    /\ Has("recreate_swapchain:return")
    /\ Has("advance")

\* C5: once acquireNextImageKHR or presentKHR has returned a status other
\* than success, suboptimal and out-of-date, the frame is not carried on: no
\* uniform update or submission follows a failed acquire, and after either
\* failure no recreation is started and current_frame is not advanced.
C5_FatalStatusStops ==
    /\ Has("acquireNextImageKHR:error") =>
           (~Has("update_uniform_buffer") /\ ~Has("submit"))
    /\ (Has("acquireNextImageKHR:error") \/ Has("presentKHR:error")) =>
           (~Has("advance") /\ ~Has("recreate_swapchain"))

DestroyEvents ==
    {"destroy:swapchain", "destroy:image_views", "destroy:render_pass",
     "destroy:pipeline", "destroy:depth_image", "destroy:depth_image_view",
     "destroy:framebuffers", "destroy:uniform_buffers",
     "destroy:descriptor_pool"}

CreateEvents ==
    {"create:swapchain", "create:image_views", "create:render_pass",
     "create:pipeline", "create:depth_image", "create:depth_image_view",
     "create:framebuffers", "create:uniform_buffers", "create:descriptor_pool",
     "create:descriptor_sets", "create:command_buffers"}

\* The steps of recreate_swapchain that destroy or replace objects.
RebuildSteps ==
    {"swapchain_reset", "create_swap_chain", "create_swapchain_image_views",
     "create_render_pass", "create_graphics_pipelines", "create_depth_resource",
     "create_frame_buffers", "create_uniform_buffers", "create_descriptor_pool",
     "create_descriptor_sets", "create_command_buffers"}

\* C6: within a recreation, every destruction or replacement of a
\* swapchain-owned object comes after that recreation's waitIdle, and no
\* submission is pending while the objects are being destroyed and rebuilt.
C6_IdleBeforeDestroy ==
    /\ \A i \in DOMAIN log :
          log[i] \in (DestroyEvents \cup CreateEvents) =>
              \E j \in 1 .. (i - 1) :
                 /\ log[j] = "waitIdle"
                 /\ \E k \in 1 .. (j - 1) : log[k] = "recreate_swapchain"
    /\ pc \in RebuildSteps => inflight = {}

C6_Witness ==
    /\ pc = "create_swap_chain"
    /\ Has("submit")
    /\ Has("waitIdle")
    /\ Has("destroy:swapchain")

\* C7: while recreate_swapchain is in its resolution loop nothing has been
\* destroyed or created by it, and once the loop has read a nonzero
\* resolution the recreation runs to completion.
C7_MinimizedRecreation ==
    /\ [](pc \in {"get_resolution", "glfwWaitEvents"} =>
            \A i \in DOMAIN log : log[i] \notin (DestroyEvents \cup CreateEvents))
    /\ ((pc = "glfwWaitEvents" /\ ~WindowMinimized(res))
           ~> Has("recreate_swapchain:return"))

\* The log restricted to the swapchain, its views, the render pass, the
\* pipeline and the framebuffers.
GenerationEvents ==
    SelectSeq(log, LAMBDA e :
        e \in {"destroy:swapchain", "create:swapchain", "destroy:image_views",
               "create:image_views", "destroy:render_pass", "create:render_pass",
               "destroy:pipeline", "create:pipeline", "destroy:framebuffers",
               "create:framebuffers"})

\* Every swapchain-owned object is one built for the current swapchain.
AllOfCurrentGeneration ==
    /\ swapchain_ = generation
    /\ render_pass_ = generation
    /\ graphics_pipeline_ = [generation |-> generation, render_pass |-> generation]
    /\ depth_image_ = generation
    /\ depth_image_view_ = [image |-> generation]
    /\ \A i \in DOMAIN swapchain_images_ :
          swapchain_images_[i].swapchain = generation
    /\ \A i \in DOMAIN swapchain_image_views_ :
          swapchain_image_views_[i].image.swapchain = generation
    /\ \A i \in DOMAIN swapchain_framebuffers_ :
          /\ swapchain_framebuffers_[i].render_pass = generation
          /\ swapchain_framebuffers_[i].depth = depth_image_view_
          /\ swapchain_framebuffers_[i].view.image.swapchain = generation

C9_FramesFitSwapchain == frames_in_flight <= Size(swapchain_images_)

\* C10: at every entry to render() the six per-image arrays have the same
\* index set 0..N-1, and entry i of each belongs to image i of the current
\* swapchain.
C10_PerImageArrays ==
    pc = "waitForFences" =>
        /\ swapchain_ = generation
        /\ DOMAIN swapchain_images_ = 0 .. (Size(swapchain_images_) - 1)
        /\ DOMAIN swapchain_image_views_ = DOMAIN swapchain_images_
        /\ DOMAIN swapchain_framebuffers_ = DOMAIN swapchain_images_
        /\ DOMAIN command_buffers_ = DOMAIN swapchain_images_
        /\ DOMAIN uniform_buffers_ = DOMAIN swapchain_images_
        /\ DOMAIN descriptor_sets_ = DOMAIN swapchain_images_
        /\ \A i \in DOMAIN swapchain_images_ :
              /\ swapchain_images_[i] = [swapchain |-> swapchain_, index |-> i]
              /\ swapchain_image_views_[i].image = swapchain_images_[i]
              /\ swapchain_framebuffers_[i].view = swapchain_image_views_[i]
              /\ uniform_buffers_[i] = [generation |-> generation, index |-> i]
              /\ descriptor_sets_[i].uniform_buffer = uniform_buffers_[i]
              /\ command_buffers_[i].framebuffer = swapchain_framebuffers_[i]
              /\ command_buffers_[i].descriptor_set = descriptor_sets_[i]

\* render() is entered after a recreation that changed the number of images.
C10_Witness ==
    /\ pc = "waitForFences"
    /\ generation = 2
    /\ Cardinality({h \in pool_command_buffers : h[1] = 1})
          # Size(swapchain_images_)

(***************************************************************************)
(* The choices create_swap_chain makes from what the surface reports,      *)
(* exercised on their own: each action applies one function to inputs      *)
(* drawn from bounded sets and records the call and its result.            *)
(***************************************************************************)

\* Longest format list and longest present-mode list a surface reports.
MaxFormats == 2

MaxPresentModes == 2

\* std::numeric_limits<std::uint32_t>::max(), with std::uint32_t narrowed to
\* 16 bits: the largest value of the type, above every real extent.
UINT32_MAX == 65535

ToUint32(x) == x % (UINT32_MAX + 1)

\* The lists of at most n elements of S.
ListsUpTo(S, n) == UNION {[1 .. k -> S] : k \in 0 .. n}

Range(list) == {list[i] : i \in DOMAIN list}

\* The application thread's members before Application's constructor ran.
app_vars ==
    <<pc, caller, current_frame, in_flight_fences, inflight,
      frame_buffer_resized, res, frame_locals, semaphore_vars,
      swapchain_vars, log,
      history_vars>>

NotConstructed ==
    /\ pc = "main"
    /\ caller = "none"
    /\ current_frame = 0
    /\ in_flight_fences = [k \in FrameSlots |-> FALSE]
    /\ inflight = {}
    /\ image_available_semaphores = [k \in FrameSlots |-> 0]
    /\ render_finished_semaphores = [k \in FrameSlots |-> 0]
    /\ frame_buffer_resized = FALSE
    /\ res = <<0, 0>>
    /\ image_index = 0
    /\ generation = 0
    /\ swapchain_ = NullHandle
    /\ swapchain_images_ = EmptyArray
    /\ swapchain_image_views_ = EmptyArray
    /\ render_pass_ = NullHandle
    /\ graphics_pipeline_ = NullHandle
    /\ depth_image_ = NullHandle
    /\ depth_image_view_ = NullHandle
    /\ swapchain_framebuffers_ = EmptyArray
    /\ uniform_buffers_ = EmptyArray
    /\ descriptor_pool_ = NullHandle
    /\ descriptor_sets_ = EmptyArray
    /\ command_buffers_ = EmptyArray
    /\ pool_command_buffers = {}
    /\ log = <<>>
    /\ entry_frame = 0

\* A call that returned v.
Value(v) == [kind |-> "value", value |-> v]

\* {vk::Format::eB8G8R8A8Unorm, vk::ColorSpaceKHR::eSrgbNonlinear}
PreferredFormat == [format |-> "B8G8R8A8Unorm", colorSpace |-> "SrgbNonlinear"]

\* vk::SurfaceFormatKHR values a surface may list.
SurfaceFormats ==
    {[format |-> "Undefined", colorSpace |-> "SrgbNonlinear"],
     PreferredFormat,
     [format |-> "B8G8R8A8Unorm", colorSpace |-> "ExtendedSrgbLinearEXT"],
     [format |-> "R8G8B8A8Srgb", colorSpace |-> "SrgbNonlinear"]}

\* getSurfaceFormatsKHR: at least one format.
FormatLists == ListsUpTo(SurfaceFormats, MaxFormats) \ {<<>>}

\* vk::PresentModeKHR
PresentModes == {"Immediate", "Mailbox", "Fifo", "FifoRelaxed"}

\* getSurfacePresentModesKHR
PresentModeLists == ListsUpTo(PresentModes, MaxPresentModes)

\* Variant of choose_swap_surface_format without the search loop.
choose_swap_surface_format_NoSearch(available_formats) ==
    IF Len(available_formats) = 1 /\ available_formats[1].format = "Undefined"
    THEN PreferredFormat
    ELSE available_formats[1]

\* The for loop of choose_swap_surface_format from element i on.
RECURSIVE FindPreferredFormat(_, _)
FindPreferredFormat(available_formats, i) ==
    IF i > Len(available_formats)
    THEN available_formats[1]
    ELSE IF /\ available_formats[i].format = "B8G8R8A8Unorm"
            /\ available_formats[i].colorSpace = "SrgbNonlinear"
         THEN available_formats[i]
         ELSE FindPreferredFormat(available_formats, i + 1)

choose_swap_surface_format(available_formats) ==
    IF Len(available_formats) = 1 /\ available_formats[1].format = "Undefined"
    THEN PreferredFormat
    ELSE FindPreferredFormat(available_formats, 1)

\* The for loop of choose_swap_present_mode from element i on.
RECURSIVE ScanPresentModes(_, _, _)
ScanPresentModes(available_present_modes, i, best_mode) ==
    IF i > Len(available_present_modes)
    THEN best_mode
    ELSE IF available_present_modes[i] = "Mailbox"
         THEN available_present_modes[i]
         ELSE ScanPresentModes(available_present_modes, i + 1,
                               IF available_present_modes[i] = "Immediate"
                               THEN available_present_modes[i]
                               ELSE best_mode)

\* Variant of choose_swap_present_mode that never picks immediate.
choose_swap_present_mode_NoImmediate(available_present_modes) ==
    IF \E i \in DOMAIN available_present_modes :
          available_present_modes[i] = "Mailbox"
    THEN "Mailbox"
    ELSE "Fifo"

\* Variant of choose_swap_present_mode that returns at the first immediate or
\* mailbox entry.
choose_swap_present_mode_FirstMatch(available_present_modes) ==
    LET hits == {i \in DOMAIN available_present_modes :
                    available_present_modes[i] \in {"Mailbox", "Immediate"}}
    IN  IF hits = {}
        THEN "Fifo"
        ELSE available_present_modes[CHOOSE i \in hits : \A j \in hits : i <= j]

choose_swap_present_mode(available_present_modes) ==
    ScanPresentModes(available_present_modes, 1, "Fifo")

\* std::clamp(v, lo, hi)
Clamp(v, lo, hi) == IF v < lo THEN lo ELSE IF hi < v THEN hi ELSE v

\* Variant of choose_swap_extent that returns the window resolution unclamped.
choose_swap_extent_NoClamp(capabilities, resolution) ==
    IF capabilities.currentExtent.width # UINT32_MAX
    THEN capabilities.currentExtent
    ELSE [width |-> ToUint32(resolution[1]), height |-> ToUint32(resolution[2])]

\* resolution is what window.get_resolution() returns.
choose_swap_extent(capabilities, resolution) ==
    IF capabilities.currentExtent.width # UINT32_MAX
    THEN capabilities.currentExtent
    ELSE [width |-> Clamp(ToUint32(resolution[1]),
                          capabilities.minImageExtent.width,
                          capabilities.maxImageExtent.width),
          height |-> Clamp(ToUint32(resolution[2]),
                           capabilities.minImageExtent.height,
                           capabilities.maxImageExtent.height)]

\* currentExtent, minImageExtent and maxImageExtent of
\* vk::SurfaceCapabilitiesKHR: currentExtent is the surface's size, or the
\* value (0xFFFFFFFF, 0xFFFFFFFF) when the swapchain decides it.
SurfaceExtents ==
    {[currentExtent |-> c,
      minImageExtent |-> [width |-> 1, height |-> 1],
      maxImageExtent |-> [width |-> 1024, height |-> 1024]] :
        c \in {[width |-> UINT32_MAX, height |-> UINT32_MAX],
               [width |-> 1440, height |-> 900]}}

\* What query_swapchain_support returns.
SwapChainSupportDetails ==
    {[capabilities |->
         [minImageCount |-> caps.minImageCount,
          maxImageCount |-> caps.maxImageCount,
          currentExtent |-> e.currentExtent,
          minImageExtent |-> e.minImageExtent,
          maxImageExtent |-> e.maxImageExtent],
      formats |-> formats,
      present_modes |-> present_modes] :
        caps \in SurfaceCapabilities, e \in SurfaceExtents,
        formats \in FormatLists, present_modes \in PresentModeLists}


\* The vk::SwapchainCreateInfoKHR create_swap_chain builds from the support
\* details and the window's resolution.
SwapchainCreateInfo(details, resolution) ==
    LET surface_format == choose_swap_surface_format(details.formats)
        present_mode == choose_swap_present_mode(details.present_modes)
        extent == choose_swap_extent(details.capabilities, resolution)
    IN  [minImageCount |-> ImageCount(details.capabilities),
         imageFormat |-> surface_format.format,
         imageColorSpace |-> surface_format.colorSpace,
         imageExtent |-> extent,
         presentMode |-> present_mode]

ChooseSwapSurfaceFormat ==
    /\ call = NoCall
    /\ \E available_formats \in FormatLists :
         /\ call' = [op |-> "choose_swap_surface_format",
                     available_formats |-> available_formats]
         /\ ret' = Value(choose_swap_surface_format(available_formats))
    /\ UNCHANGED <<app_vars, util_vars, process_vars>>

ChooseSwapPresentMode ==
    /\ call = NoCall
    /\ \E available_present_modes \in PresentModeLists :
         /\ call' = [op |-> "choose_swap_present_mode",
                     available_present_modes |-> available_present_modes]
         /\ ret' = Value(choose_swap_present_mode(available_present_modes))
    /\ UNCHANGED <<app_vars, util_vars, process_vars>>

ChooseSwapExtent ==
    /\ call = NoCall
    /\ \E e \in SurfaceExtents, resolution \in Resolutions :
         /\ call' = [op |-> "choose_swap_extent", capabilities |-> e,
                     resolution |-> resolution]
         /\ ret' = Value(choose_swap_extent(e, resolution))
    /\ UNCHANGED <<app_vars, util_vars, process_vars>>

\* create_swap_chain up to the createSwapchainKHRUnique call.
BuildSwapchainCreateInfo ==
    /\ call = NoCall
    /\ \E details \in SwapChainSupportDetails, resolution \in Resolutions :
         /\ call' = [op |-> "create_swap_chain", details |-> details,
                     resolution |-> resolution]
         /\ ret' = Value(SwapchainCreateInfo(details, resolution))
    /\ UNCHANGED <<app_vars, util_vars, process_vars>>

SwapchainInit == NotConstructed /\ UnitIdle

SwapchainNext ==
    \/ ChooseSwapSurfaceFormat
    \/ ChooseSwapPresentMode
    \/ ChooseSwapExtent
    \/ BuildSwapchainCreateInfo

SwapchainSpec == SwapchainInit /\ [][SwapchainNext]_vars

Called(op) == call.op = op

\* C11: the image count create_swap_chain requests is minImageCount + 1 when
\* maxImageCount is 0 or minImageCount + 1 <= maxImageCount, and
\* maxImageCount otherwise.
C11_RequestedImageCount ==
    Called("create_swap_chain") =>
        LET caps == call.details.capabilities
        IN  ret.value.minImageCount =
                (IF caps.maxImageCount = 0
                    \/ caps.minImageCount + 1 <= caps.maxImageCount
                 THEN caps.minImageCount + 1
                 ELSE caps.maxImageCount)

\* create_swap_chain ran for a surface whose cap is below minImageCount + 1.
C11_Witness ==
    /\ Called("create_swap_chain")
    /\ call.details.capabilities.maxImageCount > 0
    /\ call.details.capabilities.maxImageCount
          < call.details.capabilities.minImageCount + 1
    /\ ret.kind = "value"

\* create_swap_chain ran for a surface with minImageCount 2 that offers
\* mailbox.
MailboxSurface ==
    /\ Called("create_swap_chain")
    /\ call.details.capabilities.minImageCount = 2
    /\ "Mailbox" \in Range(call.details.present_modes)

\* C12 as stated: for such a surface the present mode is mailbox and the
\* image count is 3 if maxImageCount >= 3, else maxImageCount.
C12_MailboxTripleBuffer ==
    MailboxSurface =>
        /\ ret.value.presentMode = "Mailbox"
        /\ ret.value.minImageCount =
               (IF call.details.capabilities.maxImageCount >= 3
                THEN 3
                ELSE call.details.capabilities.maxImageCount)

\* C12 as amended: for such a surface the present mode is mailbox and the
\* image count is 3 if maxImageCount is 0 (no limit) or >= 3, else
\* maxImageCount.
C12_MailboxTripleBufferUnlessCapped ==
    MailboxSurface =>
        /\ ret.value.presentMode = "Mailbox"
        /\ ret.value.minImageCount =
               (IF call.details.capabilities.maxImageCount = 0
                   \/ call.details.capabilities.maxImageCount >= 3
                THEN 3
                ELSE call.details.capabilities.maxImageCount)

C12_Witness ==
    /\ MailboxSurface
    /\ call.details.capabilities.maxImageCount = 0
    /\ call.details.present_modes[1] = "Immediate"
    /\ ret.value.presentMode = "Mailbox"
    /\ ret.value.minImageCount = 3

\* C13: choose_swap_present_mode returns mailbox if the list has it, else
\* immediate if the list has it, else FIFO, whatever the order and the
\* repetitions of the list.
C13_PresentModePreference ==
    Called("choose_swap_present_mode") =>
        LET offered == Range(call.available_present_modes)
        IN  ret.value = (IF "Mailbox" \in offered THEN "Mailbox"
                         ELSE IF "Immediate" \in offered THEN "Immediate"
                         ELSE "Fifo")

\* Immediate is listed before mailbox and mailbox is returned.
C13_Witness ==
    /\ Called("choose_swap_present_mode")
    /\ Len(call.available_present_modes) >= 2
    /\ call.available_present_modes[1] = "Immediate"
    /\ call.available_present_modes[2] = "Mailbox"
    /\ ret.value = "Mailbox"

C15_ExtentChoice ==
    Called("choose_swap_extent") =>
        LET c == call.capabilities
            W == call.resolution[1]
            H == call.resolution[2]
            InBounds(v, lo, hi) == lo <= v /\ v <= hi
        IN  IF c.currentExtent = [width |-> UINT32_MAX, height |-> UINT32_MAX]
            THEN /\ InBounds(ret.value.width, c.minImageExtent.width,
                             c.maxImageExtent.width)
                 /\ InBounds(ret.value.height, c.minImageExtent.height,
                             c.maxImageExtent.height)
                 /\ InBounds(W, c.minImageExtent.width, c.maxImageExtent.width)
                       => ret.value.width = W
                 /\ InBounds(H, c.minImageExtent.height, c.maxImageExtent.height)
                       => ret.value.height = H
                 /\ W < c.minImageExtent.width
                       => ret.value.width = c.minImageExtent.width
                 /\ W > c.maxImageExtent.width
                       => ret.value.width = c.maxImageExtent.width
                 /\ H < c.minImageExtent.height
                       => ret.value.height = c.minImageExtent.height
                 /\ H > c.maxImageExtent.height
                       => ret.value.height = c.maxImageExtent.height
            ELSE ret.value = c.currentExtent

\* The width is clamped and the height is kept.
C15_Witness ==
    /\ Called("choose_swap_extent")
    /\ call.capabilities.currentExtent.width = UINT32_MAX
    /\ call.resolution = <<1440, 900>>
    /\ ret.value = [width |-> 1024, height |-> 900]

(***************************************************************************)
(* The buffer utilities: transition_image_layout over                      *)
(* submit_one_time_commands, create_buffer over find_memory_type, and      *)
(* create_buffer_from_data over create_buffer and copy_buffer.  The queue  *)
(* finishes submitted work on its own.                                     *)
(***************************************************************************)

\* A call that threw an exception with this what().
Throws(what) == [kind |-> "exception", what |-> what]

\* The calls made so far followed by these.
Did(calls) == steps' = steps \o calls

\* vk::ImageLayout values the application and the utilities name.
ImageLayouts ==
    {"Undefined", "TransferDstOptimal", "ShaderReadOnlyOptimal",
     "DepthStencilAttachmentOptimal"}

\* Variant of the barrier table whose else branch records a barrier with
\* empty masks instead of throwing.
LayoutBarrier_NoThrow(old_layout, new_layout) ==
    IF old_layout = "Undefined" /\ new_layout = "TransferDstOptimal"
    THEN [supported |-> TRUE, srcAccessMask |-> {},
          dstAccessMask |-> {"TransferWrite"},
          source_stage |-> "TopOfPipe", destination_stage |-> "Transfer"]
    ELSE IF old_layout = "Undefined"
            /\ new_layout = "DepthStencilAttachmentOptimal"
    THEN [supported |-> TRUE, srcAccessMask |-> {},
          dstAccessMask |-> {"DepthStencilAttachmentRead",
                             "DepthStencilAttachmentWrite"},
          source_stage |-> "TopOfPipe",
          destination_stage |-> "EarlyFragmentTests"]
    ELSE IF old_layout = "TransferDstOptimal"
            /\ new_layout = "ShaderReadOnlyOptimal"
    THEN [supported |-> TRUE, srcAccessMask |-> {"TransferWrite"},
          dstAccessMask |-> {"ShaderRead"},
          source_stage |-> "Transfer", destination_stage |-> "FragmentShader"]
    ELSE [supported |-> TRUE, srcAccessMask |-> {}, dstAccessMask |-> {},
          source_stage |-> "TopOfPipe", destination_stage |-> "TopOfPipe"]

\* Variant of the barrier table whose depth entry waits for the fragment
\* shader instead of the early fragment tests.
LayoutBarrier_LateDepth(old_layout, new_layout) ==
    IF old_layout = "Undefined" /\ new_layout = "TransferDstOptimal"
    THEN [supported |-> TRUE, srcAccessMask |-> {},
          dstAccessMask |-> {"TransferWrite"},
          source_stage |-> "TopOfPipe", destination_stage |-> "Transfer"]
    ELSE IF old_layout = "Undefined"
            /\ new_layout = "DepthStencilAttachmentOptimal"
    THEN [supported |-> TRUE, srcAccessMask |-> {},
          dstAccessMask |-> {"DepthStencilAttachmentRead",
                             "DepthStencilAttachmentWrite"},
          source_stage |-> "TopOfPipe",
          destination_stage |-> "FragmentShader"]
    ELSE IF old_layout = "TransferDstOptimal"
            /\ new_layout = "ShaderReadOnlyOptimal"
    THEN [supported |-> TRUE, srcAccessMask |-> {"TransferWrite"},
          dstAccessMask |-> {"ShaderRead"},
          source_stage |-> "Transfer", destination_stage |-> "FragmentShader"]
    ELSE [supported |-> FALSE]

\* The if chain of transition_image_layout: the access masks and stages of
\* the barrier, or the throw of its else branch.
LayoutBarrier(old_layout, new_layout) ==
    IF old_layout = "Undefined" /\ new_layout = "TransferDstOptimal"
    THEN [supported |-> TRUE, srcAccessMask |-> {},
          dstAccessMask |-> {"TransferWrite"},
          source_stage |-> "TopOfPipe", destination_stage |-> "Transfer"]
    ELSE IF old_layout = "Undefined"
            /\ new_layout = "DepthStencilAttachmentOptimal"
    THEN [supported |-> TRUE, srcAccessMask |-> {},
          dstAccessMask |-> {"DepthStencilAttachmentRead",
                             "DepthStencilAttachmentWrite"},
          source_stage |-> "TopOfPipe",
          destination_stage |-> "EarlyFragmentTests"]
    ELSE IF old_layout = "TransferDstOptimal"
            /\ new_layout = "ShaderReadOnlyOptimal"
    THEN [supported |-> TRUE, srcAccessMask |-> {"TransferWrite"},
          dstAccessMask |-> {"ShaderRead"},
          source_stage |-> "Transfer", destination_stage |-> "FragmentShader"]
    ELSE [supported |-> FALSE]

\* barrier.subresourceRange.aspectMask
BarrierAspect(new_layout) ==
    IF new_layout = "DepthStencilAttachmentOptimal" THEN "Depth" ELSE "Color"

\* The state a utility call leaves alone.
UtilFrame == UNCHANGED <<app_vars, process_vars>>

\* transition_image_layout is called; submit_one_time_commands is entered.
TransitionImageLayout ==
    /\ call = NoCall
    /\ \E old_layout \in ImageLayouts, new_layout \in ImageLayouts :
         call' = [op |-> "transition_image_layout", old_layout |-> old_layout,
                  new_layout |-> new_layout]
    /\ upc' = "allocateCommandBuffers"
    /\ UNCHANGED <<ret, live, recorded, queue, steps>>
    /\ UtilFrame

\* device.allocateCommandBuffers(...); command_buffer.begin(begin_info);
OneTimeBegin ==
    /\ upc = "allocateCommandBuffers"
    /\ live' = live \cup {"command_buffer"}
    /\ Did(<<"allocateCommandBuffers", "begin">>)
    /\ upc' = "record"
    /\ UNCHANGED <<call, ret, recorded, queue>>
    /\ UtilFrame

\* std::forward<Func>(f)(command_buffer) with transition_image_layout's lambda.
RecordBarrier ==
    /\ upc = "record"
    /\ call.op = "transition_image_layout"
    /\ LET b == LayoutBarrier(call.old_layout, call.new_layout)
       IN  IF b.supported
           THEN /\ recorded' = Append(recorded,
                       [cmd |-> "pipelineBarrier",
                        oldLayout |-> call.old_layout,
                        newLayout |-> call.new_layout,
                        aspectMask |-> BarrierAspect(call.new_layout),
                        srcAccessMask |-> b.srcAccessMask,
                        dstAccessMask |-> b.dstAccessMask,
                        source_stage |-> b.source_stage,
                        destination_stage |-> b.destination_stage])
                /\ Did(<<"pipelineBarrier">>)
                /\ upc' = "end"
                /\ ret' = ret
           ELSE /\ ret' = Throws("unsupported layout transition!")
                /\ upc' = "done"
                /\ UNCHANGED <<recorded, steps>>
    /\ UNCHANGED <<call, live, queue>>
    /\ UtilFrame

\* copy_buffer_to_image is called; submit_one_time_commands is entered.
CopyBufferToImage ==
    /\ call = NoCall
    /\ call' = [op |-> "copy_buffer_to_image"]
    /\ upc' = "allocateCommandBuffers"
    /\ UNCHANGED <<ret, live, recorded, queue, steps>>
    /\ UtilFrame

\* std::forward<Func>(f)(command_buffer) with copy_buffer_to_image's lambda.
RecordBufferImageCopy ==
    /\ upc = "record"
    /\ call.op = "copy_buffer_to_image"
    /\ recorded' = Append(recorded,
           [cmd |-> "copyBufferToImage", dstImageLayout |-> "TransferDstOptimal"])
    /\ Did(<<"copyBufferToImage">>)
    /\ upc' = "end"
    /\ UNCHANGED <<call, ret, live, queue>>
    /\ UtilFrame

\* command_buffer.end(); queue.submit(1, &submit_info, vk::Fence{});
OneTimeSubmit ==
    /\ upc = "end"
    /\ queue' = queue \cup {recorded}
    /\ Did(<<"end", "submit">>)
    /\ upc' = "waitIdle"
    /\ UNCHANGED <<call, ret, live, recorded>>
    /\ UtilFrame

\* Variant in which queue.waitIdle() returns at once.
QueueIdle_NoWait == TRUE

\* queue.waitIdle() returns once the queue has finished all it was given.
QueueIdle == queue = {}

\* Variant that goes on to free the command buffer without queue.waitIdle().
OneTimeWaitIdle_Skipped ==
    /\ upc = "waitIdle"
    /\ upc' = "freeCommandBuffers"
    /\ UNCHANGED <<call, ret, live, recorded, queue, steps>>
    /\ UtilFrame

\* queue.waitIdle();
OneTimeWaitIdle ==
    /\ upc = "waitIdle"
    /\ QueueIdle
    /\ Did(<<"waitIdle">>)
    /\ upc' = "freeCommandBuffers"
    /\ UNCHANGED <<call, ret, live, recorded, queue>>
    /\ UtilFrame

\* device.freeCommandBuffers(command_pool, 1, &command_buffer); return
OneTimeFree ==
    /\ upc = "freeCommandBuffers"
    /\ live' = live \ {"command_buffer"}
    /\ Did(<<"freeCommandBuffers">>)
    /\ ret' = Value("void")
    /\ upc' = "done"
    /\ UNCHANGED <<call, recorded, queue>>
    /\ UtilFrame

\* The queue finishes a submission.
QueueComplete ==
    /\ \E work \in queue : queue' = queue \ {work}
    /\ UNCHANGED <<call, ret, upc, live, recorded, steps>>
    /\ UtilFrame

\* Most memory types a physical device reports.
MaxMemoryTypes == 2

\* vk::MemoryPropertyFlags of a memory type.
MemoryTypeFlags ==
    {{}, {"DeviceLocal"}, {"HostVisible"}, {"HostVisible", "HostCoherent"},
     {"DeviceLocal", "HostVisible", "HostCoherent"}}

\* getMemoryProperties(): memoryTypes[0 .. memoryTypeCount - 1].
DeviceMemoryTypes ==
    UNION {[0 .. (n - 1) -> MemoryTypeFlags] : n \in 1 .. MaxMemoryTypes}

RECURSIVE Pow2(_)
Pow2(i) == IF i = 0 THEN 1 ELSE 2 * Pow2(i - 1)

\* memoryTypeBits a resource may require on a device: a nonempty mask over
\* the device's memory types.
MemoryTypeBits(memory_types) == 1 .. (Pow2(Size(memory_types)) - 1)

\* type_filter & (1 << i)
BitSet(type_filter, i) == (type_filter \div Pow2(i)) % 2 = 1

\* Variant of find_memory_type that does not test type_filter.
find_memory_type_IgnoresFilter(memory_types, type_filter, properties) ==
    LET fits == {i \in DOMAIN memory_types : properties \subseteq memory_types[i]}
    IN  IF fits = {}
        THEN [found |-> FALSE]
        ELSE [found |-> TRUE, index |-> CHOOSE i \in fits : \A j \in fits : i <= j]

\* The for loop of find_memory_type from index i on; falling out of the loop
\* is the throw.
RECURSIVE FindMemoryTypeFrom(_, _, _, _)
FindMemoryTypeFrom(memory_types, type_filter, properties, i) ==
    IF i >= Size(memory_types)
    THEN [found |-> FALSE]
    ELSE IF /\ BitSet(type_filter, i)
            /\ (memory_types[i] \cap properties) = properties
         THEN [found |-> TRUE, index |-> i]
         ELSE FindMemoryTypeFrom(memory_types, type_filter, properties, i + 1)

find_memory_type(memory_types, type_filter, properties) ==
    FindMemoryTypeFrom(memory_types, type_filter, properties, 0)

\* The property flags the callers of create_buffer ask for.
RequestedProperties == {{"HostVisible", "HostCoherent"}, {"DeviceLocal"}}

\* create_buffer is called on a device with these memory types, for a buffer
\* whose requirements will carry these memoryTypeBits.
CreateBuffer ==
    /\ call = NoCall
    /\ \E memory_types \in DeviceMemoryTypes :
         \E type_filter \in MemoryTypeBits(memory_types),
            properties \in RequestedProperties :
           call' = [op |-> "create_buffer", memory_types |-> memory_types,
                    memoryTypeBits |-> type_filter, properties |-> properties]
    /\ upc' = "createBufferUnique"
    /\ UNCHANGED <<ret, live, recorded, queue, steps>>
    /\ UtilFrame

\* auto buffer = device.createBufferUnique(create_info);
\* const auto memory_requirement = device.getBufferMemoryRequirements(*buffer);
CreateBufferUnique ==
    /\ upc = "createBufferUnique"
    /\ live' = live \cup {"buffer"}
    /\ Did(<<"createBuffer", "getBufferMemoryRequirements">>)
    /\ upc' = "find_memory_type"
    /\ UNCHANGED <<call, ret, recorded, queue>>
    /\ UtilFrame

\* find_memory_type, then allocateMemoryUnique, bindBufferMemory and the
\* return; when find_memory_type throws, the unwinding destroys buffer.
AllocateAndBind ==
    /\ upc = "find_memory_type"
    /\ LET type == find_memory_type(call.memory_types, call.memoryTypeBits,
                                    call.properties)
       IN  IF type.found
           THEN /\ live' = live \cup {"buffer_memory"}
                /\ Did(<<"find_memory_type", "allocateMemory",
                         "bindBufferMemory">>)
                /\ ret' = Value([buffer |-> "buffer", memory |-> "buffer_memory",
                                 memoryTypeIndex |-> type.index])
           ELSE /\ live' = live \ {"buffer"}
                /\ Did(<<"find_memory_type", "destroyBuffer">>)
                /\ ret' = Throws("failed to find suitable memory type!")
    /\ upc' = "done"
    /\ UNCHANGED <<call, recorded, queue>>
    /\ UtilFrame

\* The staging buffer and its memory, held by create_buffer_from_data's
\* structured binding until the function is left.
Staging == {"staging_buffer", "staging_buffer_memory"}

\* create_buffer_from_data is called on a device with these memory types;
\* the two buffers it creates will require these memoryTypeBits.
CreateBufferFromData ==
    /\ call = NoCall
    /\ \E memory_types \in DeviceMemoryTypes :
         \E staging_bits \in MemoryTypeBits(memory_types),
            destination_bits \in MemoryTypeBits(memory_types) :
           call' = [op |-> "create_buffer_from_data",
                    memory_types |-> memory_types,
                    staging_bits |-> staging_bits,
                    destination_bits |-> destination_bits]
    /\ upc' = "staging"
    /\ UNCHANGED <<ret, live, recorded, queue, steps>>
    /\ UtilFrame

\* create_buffer(..., eTransferSrc, eHostVisible | eHostCoherent)
CreateStaging ==
    /\ upc = "staging"
    /\ IF find_memory_type(call.memory_types, call.staging_bits,
                           {"HostVisible", "HostCoherent"}).found
       THEN /\ live' = live \cup Staging
            /\ Did(<<"create_buffer:staging">>)
            /\ upc' = "mapMemory"
            /\ ret' = ret
       ELSE /\ ret' = Throws("failed to find suitable memory type!")
            /\ upc' = "done"
            /\ UNCHANGED <<live, steps>>
    /\ UNCHANGED <<call, recorded, queue>>
    /\ UtilFrame

\* mapMemory, memcpy, unmapMemory
StageData ==
    /\ upc = "mapMemory"
    /\ Did(<<"mapMemory", "memcpy", "unmapMemory">>)
    /\ upc' = "destination"
    /\ UNCHANGED <<call, ret, live, recorded, queue>>
    /\ UtilFrame

\* create_buffer(..., usages | eTransferDst, eDeviceLocal); when it throws,
\* the unwinding destroys the staging buffer and its memory.
CreateDestination ==
    /\ upc = "destination"
    /\ IF find_memory_type(call.memory_types, call.destination_bits,
                           {"DeviceLocal"}).found
       THEN /\ live' = live \cup {"buffer", "buffer_memory"}
            /\ Did(<<"create_buffer:destination">>)
            /\ upc' = "copy_buffer"
            /\ ret' = ret
       ELSE /\ live' = live \ Staging
            /\ Did(<<"destroy:staging">>)
            /\ ret' = Throws("failed to find suitable memory type!")
            /\ upc' = "done"
    /\ UNCHANGED <<call, recorded, queue>>
    /\ UtilFrame

\* copy_buffer: allocateCommandBuffersUnique, begin, copyBuffer, end
CopyRecord ==
    /\ upc = "copy_buffer"
    /\ live' = live \cup {"command_buffer"}
    /\ recorded' = <<[cmd |-> "copyBuffer", src |-> "staging_buffer",
                      dst |-> "buffer"]>>
    /\ Did(<<"allocateCommandBuffers", "begin", "copyBuffer", "end">>)
    /\ upc' = "copy_submit"
    /\ UNCHANGED <<call, ret, queue>>
    /\ UtilFrame

\* copy_buffer: queue.submit(1, &submit_info, vk::Fence{});
CopySubmit ==
    /\ upc = "copy_submit"
    /\ queue' = queue \cup {recorded}
    /\ Did(<<"submit">>)
    /\ upc' = "copy_waitIdle"
    /\ UNCHANGED <<call, ret, live, recorded>>
    /\ UtilFrame

\* copy_buffer: queue.waitIdle(); and the return, which frees the unique
\* command buffer.
CopyWaitIdle ==
    /\ upc = "copy_waitIdle"
    /\ QueueIdle
    /\ live' = live \ {"command_buffer"}
    /\ Did(<<"waitIdle">>)
    /\ upc' = "return"
    /\ UNCHANGED <<call, ret, recorded, queue>>
    /\ UtilFrame

\* return {std::move(buffer), std::move(buffer_memory)}; leaving the function
\* destroys the staging buffer and its memory.
ReturnBuffer ==
    /\ upc = "return"
    /\ live' = live \ Staging
    /\ Did(<<"destroy:staging">>)
    /\ ret' = Value([buffer |-> "buffer", memory |-> "buffer_memory"])
    /\ upc' = "done"
    /\ UNCHANGED <<call, recorded, queue>>
    /\ UtilFrame

UtilInit == NotConstructed /\ UnitIdle

UtilNext ==
    \/ TransitionImageLayout
    \/ CopyBufferToImage
    \/ OneTimeBegin
    \/ RecordBarrier
    \/ RecordBufferImageCopy
    \/ OneTimeSubmit
    \/ OneTimeWaitIdle
    \/ OneTimeFree
    \/ CreateBuffer
    \/ CreateBufferUnique
    \/ AllocateAndBind
    \/ CreateBufferFromData
    \/ CreateStaging
    \/ StageData
    \/ CreateDestination
    \/ CopyRecord
    \/ CopySubmit
    \/ CopyWaitIdle
    \/ ReturnBuffer
    \/ QueueComplete

UtilSpec == UtilInit /\ [][UtilNext]_vars

\* The (old_layout, new_layout) pairs the transition table names.
TablePairs ==
    {<<"Undefined", "TransferDstOptimal">>,
     <<"Undefined", "DepthStencilAttachmentOptimal">>,
     <<"TransferDstOptimal", "ShaderReadOnlyOptimal">>}

TransitionOf(pairs) ==
    /\ Called("transition_image_layout")
    /\ <<call.old_layout, call.new_layout>> \in pairs

\* C16: a transition outside the three pairs of the table ends in the
\* "unsupported layout transition!" exception, with no barrier recorded and
\* nothing submitted to the queue.
C16_UnsupportedTransitionThrows ==
    TransitionOf((ImageLayouts \X ImageLayouts) \ TablePairs) =>
        /\ recorded = <<>>
        /\ queue = {}
        /\ "pipelineBarrier" \notin Range(steps)
        /\ "submit" \notin Range(steps)
        /\ upc \in {"allocateCommandBuffers", "record", "done"}
        /\ upc = "done" => ret = Throws("unsupported layout transition!")

C16_Witness ==
    /\ Called("transition_image_layout")
    /\ call.old_layout = "ShaderReadOnlyOptimal"
    /\ call.new_layout = "Undefined"
    /\ upc = "done"
    /\ ret.kind = "exception"

\* The stages and access masks the table gives for a pair.
TableEntry(pair) ==
    CASE pair = <<"Undefined", "TransferDstOptimal">> ->
           [source_stage |-> "TopOfPipe", destination_stage |-> "Transfer",
            srcAccessMask |-> {}, dstAccessMask |-> {"TransferWrite"}]
      [] pair = <<"Undefined", "DepthStencilAttachmentOptimal">> ->
           [source_stage |-> "TopOfPipe",
            destination_stage |-> "EarlyFragmentTests",
            srcAccessMask |-> {},
            dstAccessMask |-> {"DepthStencilAttachmentRead",
                               "DepthStencilAttachmentWrite"}]
      [] pair = <<"TransferDstOptimal", "ShaderReadOnlyOptimal">> ->
           [source_stage |-> "Transfer", destination_stage |-> "FragmentShader",
            srcAccessMask |-> {"TransferWrite"},
            dstAccessMask |-> {"ShaderRead"}]

\* C17: for a pair of the table, transition_image_layout records exactly one
\* barrier, from old_layout to new_layout with the table's stages and access
\* masks for that pair, and submits it.
C17_BarrierTable ==
    (TransitionOf(TablePairs) /\ upc \notin {"allocateCommandBuffers", "record"}) =>
        LET entry == TableEntry(<<call.old_layout, call.new_layout>>)
        IN  /\ Len(recorded) = 1
            /\ recorded[1].cmd = "pipelineBarrier"
            /\ recorded[1].oldLayout = call.old_layout
            /\ recorded[1].newLayout = call.new_layout
            /\ recorded[1].source_stage = entry.source_stage
            /\ recorded[1].destination_stage = entry.destination_stage
            /\ recorded[1].srcAccessMask = entry.srcAccessMask
            /\ recorded[1].dstAccessMask = entry.dstAccessMask
            /\ upc = "done" => (ret = Value("void") /\ "submit" \in Range(steps))

C17_Witness ==
    /\ TransitionOf({<<"Undefined", "DepthStencilAttachmentOptimal">>})
    /\ upc = "done"
    /\ ret = Value("void")
    /\ Len(recorded) = 1

\* The memory types of the call that have bit i set in memoryTypeBits and all
\* requested property flags.
SuitableTypes ==
    {i \in DOMAIN call.memory_types :
        /\ (call.memoryTypeBits \div Pow2(i)) % 2 = 1
        /\ call.properties \subseteq call.memory_types[i]}

C19_StagingLifetime ==
    Called("create_buffer_from_data") =>
        /\ queue # {} => Staging \subseteq live
        /\ upc = "done" => (Staging \cap live = {} /\ queue = {})
        /\ (upc = "done" /\ ret.kind = "value") =>
              /\ steps = <<"create_buffer:staging", "mapMemory", "memcpy",
                           "unmapMemory", "create_buffer:destination",
                           "allocateCommandBuffers", "begin", "copyBuffer",
                           "end", "submit", "waitIdle", "destroy:staging">>
              /\ live = {"buffer", "buffer_memory"}

C19_Witness ==
    /\ Called("create_buffer_from_data")
    /\ upc = "done"
    /\ ret.kind = "value"
    /\ "submit" \in Range(steps)

(***************************************************************************)
(* main: Application's constructor either completes (Init) or fails; an    *)
(* exception leaves the try block for a handler that prints it, and main   *)
(* ends after the try block or a handler.                                  *)
(***************************************************************************)

\* what() of the exceptions the constructor's calls throw.
ConstructorErrors ==
    {"failed to find suitable memory type!", "failed to load texture image!",
     "failed to open file: shaders/shader.vert.spv"}

\* The state a step of main outside Application leaves alone.
MainFrame ==
    UNCHANGED <<caller, current_frame, in_flight_fences, inflight,
                frame_buffer_resized, res, frame_locals, semaphore_vars,
                swapchain_vars, log,
                history_vars, util_vars>>

\* Bound: the physical devices instance_->enumeratePhysicalDevices() returns.
MaxDevices == 2

\* What is_physical_device_suitable asks of a device: whether its queue
\* families hold a graphics and a present family, whether it has the required
\* extensions, whether the surface reports formats and present modes for it,
\* and its samplerAnisotropy feature.
PhysicalDevices ==
    [is_complete : BOOLEAN, extensions_supported : BOOLEAN,
     formats : BOOLEAN, present_modes : BOOLEAN, samplerAnisotropy : BOOLEAN]

DeviceLists == ListsUpTo(PhysicalDevices, MaxDevices) \ {<<>>}

is_physical_device_suitable(device) ==
    LET swap_chain_adequate ==
            IF device.extensions_supported
            THEN device.formats /\ device.present_modes
            ELSE FALSE
    IN  /\ device.is_complete
        /\ device.extensions_supported
        /\ swap_chain_adequate
        /\ device.samplerAnisotropy

\* for (device : devices) if (suitable) return device; ... return nullptr;
\* a device is named by its place in the enumeration.
RECURSIVE FindSuitableFrom(_, _)
FindSuitableFrom(devices, i) ==
    IF i > Len(devices) THEN NullHandle
    ELSE IF is_physical_device_suitable(devices[i]) THEN i
    ELSE FindSuitableFrom(devices, i + 1)

pick_physical_device(devices) == FindSuitableFrom(devices, 1)

\* Application app; up to physical_device_ = pick_physical_device(), which
\* prints a line when it returns nullptr.
PickPhysicalDevice ==
    /\ pc = "main"
    /\ \E devices \in DeviceLists :
           LET device == pick_physical_device(devices)
           IN  /\ call' = [op |-> "Application", devices |-> devices,
                           physical_device_ |-> device]
               /\ stderr_out' =
                      IF device = NullHandle
                      THEN Append(stderr_out,
                               <<"Cannot find suitable physical device for Vulkan">>)
                      ELSE stderr_out
    /\ steps' = <<"pick_physical_device">>
    /\ pc' = "find_queue_families"
    /\ UNCHANGED <<ret, exit_code, upc, live, recorded, queue>>
    /\ UNCHANGED <<caller, current_frame, in_flight_fences, inflight,
                   frame_buffer_resized, res, frame_locals, semaphore_vars,
                   swapchain_vars, log,
                   history_vars>>

\* queue_family_indices_ = find_queue_families(physical_device_);
\* device_ = create_logical_device(); with the device that was picked.
CreateLogicalDevice ==
    /\ pc = "find_queue_families"
    /\ call.physical_device_ # NullHandle
    /\ steps' = steps \o <<"find_queue_families", "create_logical_device">>
    /\ pc' = "setup"
    /\ UNCHANGED <<call, ret, process_vars, upc, live, recorded, queue>>
    /\ UNCHANGED <<caller, current_frame, in_flight_fences, inflight,
                   frame_buffer_resized, res, frame_locals, semaphore_vars,
                   swapchain_vars, log,
                   history_vars>>

\* The rest of the constructor, where one of its calls throws.
ConstructorThrows ==
    /\ pc = "setup"
    /\ \E what \in ConstructorErrors : ret' = Throws(what)
    /\ pc' = "catch"
    /\ UNCHANGED <<call, process_vars>>
    /\ MainFrame

\* pick_physical_device returned nullptr and the constructor goes on:
\* find_queue_families is called with the null device, which either crashes
\* the process or makes the call throw.
NoSuitableDevice ==
    /\ pc = "find_queue_families"
    /\ call.physical_device_ = NullHandle
    /\ steps' = Append(steps, "find_queue_families")
    /\ \/ /\ ret' = [kind |-> "crash"]
          /\ exit_code' = "SIGSEGV"
          /\ pc' = "exited"
       \/ /\ ret' = Throws("vk::SystemError")
          /\ exit_code' = exit_code
          /\ pc' = "catch"
    /\ UNCHANGED <<call, stderr_out, upc, live, recorded, queue>>
    /\ UNCHANGED <<caller, current_frame, in_flight_fences, inflight,
                   frame_buffer_resized, res, frame_locals, semaphore_vars,
                   swapchain_vars, log,
                   history_vars>>

\* catch (const std::exception& e) { fmt::print(stderr, "Error: {}\n", e.what()); }
Catch ==
    /\ pc = "catch"
    /\ stderr_out' = Append(stderr_out, <<"Error: ", ret.what>>)
    /\ pc' = "return"
    /\ UNCHANGED <<call, ret, exit_code>>
    /\ MainFrame

\* The end of the try block after exec() returned: app goes out of scope and
\* ~Application destroys the Vulkan objects it owns.
ApplicationDestroyed ==
    /\ pc = "done"
    /\ steps' = Append(steps, "~Application")
    /\ pc' = "return"
    /\ UNCHANGED <<call, ret, process_vars, upc, live, recorded, queue>>
    /\ UNCHANGED <<caller, current_frame, in_flight_fences, inflight,
                   frame_buffer_resized, res, frame_locals, semaphore_vars,
                   swapchain_vars, log,
                   history_vars>>

\* A call of render() that throws: acquireNextImageKHR (the overload that
\* returns a ResultValue) on an error status, or mapMemory in
\* update_uniform_buffer.  The exception leaves render(), exec() and the try
\* block of main, and unwinding destroys app on the way to the handler.
RenderThrows ==
    /\ pc \in {"acquireNextImageKHR", "update_uniform_buffer"}
    /\ ret' = Throws("vk::SystemError")
    /\ steps' = Append(steps, "~Application")
    /\ pc' = "catch"
    /\ UNCHANGED <<call, process_vars, upc, live, recorded, queue>>
    /\ UNCHANGED <<caller, current_frame, in_flight_fences, inflight,
                   frame_buffer_resized, res, frame_locals, semaphore_vars,
                   swapchain_vars, log,
                   history_vars>>

\* assert(result == vk::Result::eSuccess) failed: the message goes to stderr
\* and abort() ends the process; no destructor runs.
AssertAborts ==
    /\ pc = "terminated"
    /\ ret' = [kind |-> "crash"]
    /\ stderr_out' =
           Append(stderr_out, <<"Assertion `result == vk::Result::eSuccess' failed.">>)
    /\ exit_code' = "SIGABRT"
    /\ pc' = "exited"
    /\ UNCHANGED call
    /\ MainFrame

\* The end of main, reached after the try block or after a handler: no
\* return statement, so main returns 0.
MainReturn ==
    /\ pc = "return"
    /\ exit_code' = "0"
    /\ pc' = "exited"
    /\ UNCHANGED <<call, ret, stderr_out>>
    /\ MainFrame

ProcessInit ==
    \/ Init
    \/ (NotConstructed /\ UnitIdle)

ProcessNext ==
    \/ PickPhysicalDevice
    \/ CreateLogicalDevice
    \/ ConstructorThrows
    \/ NoSuitableDevice
    \/ Catch
    \/ ApplicationDestroyed
    \/ RenderThrows
    \/ AssertAborts
    \/ MainReturn
    \/ Next

ProcessSpec == ProcessInit /\ [][ProcessNext]_vars

\* C20: the process exits with code 0 after a clean shutdown, and with a
\* nonzero code and a message on standard error after an unrecoverable error.
C20_ExitCode ==
    pc = "exited" =>
        IF ret = NoResult
        THEN exit_code = "0"
        ELSE exit_code # "0" /\ stderr_out # <<>>

\* The devices that meet every requirement of the application.
SuitableDevices(devices) ==
    {i \in DOMAIN devices :
        /\ devices[i].is_complete
        /\ devices[i].extensions_supported
        /\ devices[i].formats
        /\ devices[i].present_modes
        /\ devices[i].samplerAnisotropy}

\* C21: when no enumerated device meets the requirements, setup stops with a
\* diagnostic on standard error and nothing after the device selection is
\* attempted; otherwise the first suitable device in enumeration order is the
\* one selected.
C21_DeviceSelection ==
    (Called("Application") /\ steps # <<>>) =>
        LET suitable == SuitableDevices(call.devices)
        IN  IF suitable = {}
            THEN /\ call.physical_device_ = NullHandle
                 /\ stderr_out # <<>>
                 /\ steps = <<"pick_physical_device">>
            ELSE /\ call.physical_device_ \in suitable
                 /\ \A i \in suitable : call.physical_device_ <= i

\* The places of main after the render loop of a constructed Application.
AfterLoop == generation > 0 /\ pc \in {"catch", "return", "exited"}

\* C22: the render loop is left only at its should_close() test, never by an
\* exception or an abort, and whenever ~Application has torn the Vulkan
\* objects down no submission was still in flight.
C22_IdleBeforeTeardown ==
    /\ AfterLoop => ret = NoResult
    /\ "~Application" \in Range(steps) => inflight = {}

\* The log entries of the blocking one-shot submissions: the callers of
\* submit_one_time_commands and copy_buffer.
OneShotEvents == {"transition_image_layout", "copy_buffer_to_image", "copy_buffer"}

\* C23 (as claimed): no blocking one-shot submission is executed once the
\* render loop has started.
C23_NoOneShotInLoop ==
    \A i \in DOMAIN log : log[i] \notin OneShotEvents

\* C23 (amended): the only blocking one-shot submission inside the render
\* loop is the layout transition of the new depth image, once in each
\* recreate_swapchain, after waitIdle has returned and the depth image view
\* was created; a render() call that does not recreate the swapchain
\* executes none.
C23_OneShotOnlyInRecreation ==
    /\ \A i \in DOMAIN log :
           log[i] \in OneShotEvents =>
               /\ log[i] = "transition_image_layout"
               /\ \E j \in 1 .. (i - 1) : log[j] = "waitIdle"
               /\ \E j \in 1 .. (i - 1) : log[j] = "create:depth_image_view"
    /\ Count("transition_image_layout") <= Count("recreate_swapchain")

C23_Witness ==
    /\ pc = "exec"
    /\ Has("transition_image_layout")
    /\ Has("recreate_swapchain:return")

\* C24: for every frame that is submitted, the wait of the submission on the
\* slot's image-available semaphore can be satisfied only by the signal of
\* the acquire of the same render() call, and the wait of the present
\* request on the slot's render-finished semaphore only by the signal of that
\* submission: no other signal operation is outstanding on either semaphore.
C24_SemaphoreOrder ==
    /\ pc = "submit" =>
           /\ image_available_semaphores[current_frame] =
                  (IF AcquireSucceeded THEN 1 ELSE 0)
           /\ render_finished_semaphores[current_frame] = 0
    /\ pc = "presentKHR" =>
           render_finished_semaphores[current_frame] = 1

\* C25: after setup and after every recreate_swapchain the command pool holds
\* exactly the command buffers of the current swapchain, one per image; none
\* allocated for an earlier generation is left.
C25_PoolHoldsCurrentBuffers ==
    pc = "exec" =>
        /\ pool_command_buffers = Handles(command_buffers_)
        /\ Cardinality(pool_command_buffers) = Size(swapchain_images_)

\* A render() call returned after aborting at acquire.
AbortedAtAcquire == AcquireStale /\ ~Has("update_uniform_buffer")

C26_SlotInRange ==
    /\ current_frame \in FrameSlots
    /\ DOMAIN in_flight_fences = FrameSlots
    /\ DOMAIN image_available_semaphores = FrameSlots
    /\ DOMAIN render_finished_semaphores = FrameSlots
    /\ Count("advance") <= 1
    /\ (pc = "exec" /\ log # <<>>) =>
           IF AbortedAtAcquire
           THEN Count("advance") = 0 /\ current_frame = entry_frame
           ELSE /\ Count("advance") = 1
                /\ current_frame = (entry_frame + 1) % frames_in_flight

C26_SlotStep ==
    /\ current_frame' # current_frame =>
           /\ pc = "advance"
           /\ current_frame' = (current_frame + 1) % frames_in_flight
    /\ (caller # "none" /\ pc' # pc) =>
           UNCHANGED <<in_flight_fences, semaphore_vars>>

\* C26: current_frame stays in 0..K-1; it changes only at the end of a
\* render() call that was not aborted at acquire, once, to the next slot
\* modulo K; and recreate_swapchain leaves the fences and semaphores of the K
\* slots as they are.
C26_RoundRobin == []C26_SlotInRange /\ [][C26_SlotStep]_vars

C26_Witness ==
    /\ pc = "exec"
    /\ generation = 2
    /\ Count("advance") = 1
    /\ entry_frame = frames_in_flight - 1
    /\ current_frame = 0

\* C27: a stale swapchain is never surfaced as an error and skips no frame
\* but the one whose acquire reported it: a render() call recreates the
\* swapchain at most once and is never stopped by staleness, every call whose
\* acquire succeeded submits and presents its frame (the calls after a
\* recreation included), and a call returns without presenting only when its
\* own acquire was stale.
C27_SingleDroppedFrame ==
    /\ (AcquireStale \/ PresentStale) => (pc # "terminated" /\ ret = NoResult)
    /\ Count("recreate_swapchain") <= 1
    /\ (pc = "exec" /\ AcquireSucceeded) => (Has("submit") /\ Presented)
    /\ (pc = "exec" /\ log # <<>> /\ ~Presented) => AbortedAtAcquire

C27_Witness ==
    /\ pc = "exec"
    /\ generation = 2
    /\ AcquireSucceeded
    /\ ~Has("recreate_swapchain")
    /\ Has("submit")
    /\ Presented

\* The log entries of the seven steps of render(), in the order this call
\* performed them.
RenderSteps ==
    SelectSeq(log, LAMBDA e :
        \/ e \in {"waitForFences", "update_uniform_buffer", "resetFences",
                  "submit", "advance"}
        \/ \E r \in Results : e \in {AcquireEvent[r], PresentEvent[r]})

\* The seven steps with the statuses this call's acquire and present returned.
FixedOrder ==
    {<<"waitForFences", AcquireEvent[r], "update_uniform_buffer", "resetFences",
       "submit", PresentEvent[r2], "advance">> : r \in Results, r2 \in Results}

\* C28: a render() call that is not aborted performs wait, acquire, update,
\* reset, submit, present, advance in this order, and its fence is reset only
\* after its acquire succeeded and immediately before the submission.
C28_FixedStepOrder ==
    /\ (pc = "exec" /\ log # <<>> /\ ~AbortedAtAcquire) =>
           RenderSteps \in FixedOrder
    /\ Has("resetFences") =>
           /\ AcquireSucceeded
           /\ First("acquireNextImageKHR:success") < First("resetFences")
           /\ Count("resetFences") = 1
           /\ pc # "submit"
              => /\ First("resetFences") < Len(log)
                 /\ log[First("resetFences") + 1] = "submit"

\* Between the acquire and the present request of a render() call.
InFrame == pc \in {"update_uniform_buffer", "resetFences", "submit", "presentKHR"}

C29_IndexValid ==
    InFrame =>
        /\ image_index \in 0 .. (Size(swapchain_images_) - 1)
        /\ image_index \in DOMAIN uniform_buffers_
        /\ image_index \in DOMAIN command_buffers_
        /\ command_buffers_[image_index].descriptor_set.uniform_buffer
               = uniform_buffers_[image_index]
        /\ command_buffers_[image_index].framebuffer.view.image
               = swapchain_images_[image_index]

C29_Selection ==
    /\ (pc \in {"update_uniform_buffer", "resetFences", "submit"} /\ pc' # pc) =>
           image_index' = image_index
    /\ (pc = "acquireNextImageKHR" /\ pc' # pc) =>
           \A k \in FrameSlots \ {current_frame} :
               image_available_semaphores'[k] = image_available_semaphores[k]
    /\ (pc = "resetFences" /\ pc' # pc) =>
           in_flight_fences' = [in_flight_fences EXCEPT ![current_frame] = FALSE]
    /\ (pc = "submit" /\ pc' # pc) =>
           /\ inflight' =
                  inflight \cup {[fence |-> current_frame,
                                  command_buffer |-> command_buffers_[image_index]]}
           /\ \A k \in FrameSlots \ {current_frame} :
                  /\ image_available_semaphores'[k] = image_available_semaphores[k]
                  /\ render_finished_semaphores'[k] = render_finished_semaphores[k]
           /\ render_finished_semaphores'[current_frame]
                  = render_finished_semaphores[current_frame] + 1
    /\ (pc = "presentKHR" /\ pc' # pc) =>
           /\ \A k \in FrameSlots \ {current_frame} :
                  render_finished_semaphores'[k] = render_finished_semaphores[k]
           /\ render_finished_semaphores'[current_frame]
                  = render_finished_semaphores[current_frame] - 1

OneTimeCommand ==
    [op \in {"transition_image_layout", "copy_buffer_to_image"} |->
        IF op = "transition_image_layout" THEN "pipelineBarrier"
        ELSE "copyBufferToImage"]

IsPrefix(s, t) == Len(s) <= Len(t) /\ \A i \in DOMAIN s : s[i] = t[i]

\* C30: submit_one_time_commands allocates, begins, records the closure's
\* command, ends, submits, waits for the queue and frees, in this order; work
\* is pending on the queue only while the function waits, and when it has
\* returned the queue is idle and the command buffer is freed.
C30_OneTimeOrder ==
    call.op \in DOMAIN OneTimeCommand =>
        LET order == <<"allocateCommandBuffers", "begin",
                       OneTimeCommand[call.op], "end", "submit", "waitIdle",
                       "freeCommandBuffers">>
        IN  /\ IsPrefix(steps, order)
            /\ queue # {} => (upc = "waitIdle" /\ "waitIdle" \notin Range(steps))
            /\ (upc = "done" /\ ret.kind = "value") =>
                   /\ steps = order
                   /\ queue = {}
                   /\ "command_buffer" \notin live

C30_Witness ==
    /\ Called("copy_buffer_to_image")
    /\ upc = "done"
    /\ ret = Value("void")
    /\ Len(steps) = 7
    /\ recorded # <<>>

\* A fence goes from signaled to unsignaled only by the resetFences of the
\* render() call that is about to submit with it.
C31_OnlyResetUnsignals ==
    \A k \in FrameSlots :
        (in_flight_fences[k] /\ ~in_flight_fences'[k]) =>
            /\ pc = "resetFences"
            /\ pc' = "submit"
            /\ current_frame = k
            /\ Has("waitForFences")

\* C31: the K fences are signaled when the render loop starts and nothing
\* but the reset that precedes a submission unsignals one, so the first wait
\* on each slot's fence returns although no submission was made with it.
C31_FencesCreatedSignaled ==
    /\ \A k \in FrameSlots : in_flight_fences[k]
    /\ [][C31_OnlyResetUnsignals]_vars

\* The first wait of a run has returned: nothing was ever submitted.
C31_Witness ==
    /\ pc = "acquireNextImageKHR"
    /\ log = <<"waitForFences">>
    /\ generation = 1
    /\ pool_command_buffers = Handles(command_buffers_)
    /\ inflight = {}
    /\ \A k \in FrameSlots :
          /\ in_flight_fences[k]
          /\ image_available_semaphores[k] = 0

\* The submissions pending with the fence of slot k.
PendingOn(k) == {s \in inflight : s.fence = k}

\* C32: a fence that is not signaled belongs to a pending submission, which
\* signals it on completion, or was reset by the render() call that is about
\* to submit with it; so the wait at the start of render() is on a fence that
\* is signaled or will be.
C32_FenceNeverOrphaned ==
    \A k \in FrameSlots :
        ~in_flight_fences[k] =>
            \/ PendingOn(k) # {}
            \/ (pc = "submit" /\ current_frame = k)

\* render() waits on a fence that a pending submission will signal, after a
\* recreation and an aborted frame.
C32_Witness ==
    /\ pc = "waitForFences"
    /\ generation = 2
    /\ ~in_flight_fences[current_frame]
    /\ PendingOn(current_frame) # {}

\* C33: the image-available semaphore of the slot carries no signal left by
\* an earlier acquire when render() hands it to acquireNextImageKHR, also
\* when the previous call in the slot returned after a stale acquire.
C33_SemaphoreUnsignaledAtAcquire ==
    pc = "acquireNextImageKHR" =>
        image_available_semaphores[current_frame] = 0

\* The render loop has ended, the window is held at 0x0, or the run has used
\* up the recreations it is followed for.
LoopNotRunning ==
    \/ pc \in {"exec_waitIdle", "done", "terminated"}
    \/ (pc = "glfwWaitEvents" /\ WindowMinimized(res))
    \/ generation = MaxGenerations

JustRecreated ==
    /\ log # <<>>
    /\ log[Len(log)] = "recreate_swapchain:return"

\* C35: at most frames_in_flight submissions are in flight, at most one of
\* them on each frame slot's fence (a submit finds none pending on its slot),
\* and none is in flight when recreate_swapchain has just returned.
C35_BoundedInFlight ==
    /\ Cardinality(inflight) <= frames_in_flight
    /\ \A k \in FrameSlots : Cardinality(PendingOn(k)) <= 1
    /\ (pc = "submit" => PendingOn(current_frame) = {})
    /\ (JustRecreated => inflight = {})

\* Both frame slots have a submission in flight on a swapchain that was
\* recreated.
C35_Witness ==
    /\ Cardinality(inflight) = frames_in_flight
    /\ generation >= 2

\* The objects command buffer cb was recorded against are the ones the
\* application holds now, all of them built for the current swapchain.
RefersToCurrent(cb) ==
    /\ cb.generation = generation
    /\ cb.index \in DOMAIN swapchain_framebuffers_
    /\ cb.index \in DOMAIN descriptor_sets_
    /\ cb.index \in DOMAIN uniform_buffers_
    /\ cb.framebuffer = swapchain_framebuffers_[cb.index]
    /\ cb.framebuffer.view.image.swapchain = swapchain_
    /\ cb.render_pass = render_pass_
    /\ cb.pipeline = graphics_pipeline_
    /\ cb.descriptor_set = descriptor_sets_[cb.index]
    /\ cb.descriptor_set.pool = descriptor_pool_
    /\ cb.descriptor_set.uniform_buffer = uniform_buffers_[cb.index]
    /\ AllOfCurrentGeneration
    /\ descriptor_pool_ = generation
    /\ uniform_buffers_[cb.index].generation = generation

\* In the current render() call no submit follows the destruction of an
\* object without create_command_buffers in between.
NoSubmitBeforeRerecord ==
    \A i, j \in DOMAIN log :
        (i < j /\ log[i] \in DestroyEvents /\ log[j] = "submit") =>
            \E k \in (i + 1) .. (j - 1) : log[k] = "create:command_buffers"

\* C36: outside the rebuilding steps of recreate_swapchain every entry of
\* command_buffers_ refers only to the framebuffer, render pass, pipeline,
\* descriptor set and uniform buffer of the current swapchain generation;
\* every submission in flight is of such a buffer; during the rebuilding
\* steps nothing is in flight, and no submit comes between a destruction and
\* the re-recording.
C36_NoStaleReference ==
    /\ pc \notin RebuildSteps =>
           /\ \A i \in DOMAIN command_buffers_ :
                  /\ command_buffers_[i].index = i
                  /\ RefersToCurrent(command_buffers_[i])
           /\ \A s \in inflight : RefersToCurrent(s.command_buffer)
    /\ pc \in RebuildSteps => inflight = {}
    /\ NoSubmitBeforeRerecord

\* A command buffer recorded by a recreation is being submitted while the
\* other slot's submission is still in flight.
C36_Witness ==
    /\ pc = "submit"
    /\ generation >= 2
    /\ inflight # {}

\* Every swapchain creation in the current render() call came right after
\* the destruction of the swapchain that existed before, and the new
\* swapchain's assignment had none left to destroy.
CreatedWithNoneLive ==
    \A i \in DOMAIN log :
        log[i] = "create:swapchain" =>
            /\ i > 1
            /\ log[i - 1] = "destroy:swapchain"
            /\ (i < Len(log) => log[i + 1] # "destroy:swapchain")

\* C37: create_swap_chain is entered only with no swapchain live, so that at
\* most one exists at any time, and the swapchain render() acquires from and
\* presents to is the live one, the last one created.
C37_SingleSwapchain ==
    /\ (pc = "create_swap_chain" => swapchain_ = NullHandle)
    /\ CreatedWithNoneLive
    /\ Count("destroy:swapchain") <= Count("create:swapchain") + 1
    /\ (pc \in {"acquireNextImageKHR", "presentKHR"} =>
           (swapchain_ # NullHandle /\ swapchain_ = generation))

\* recreate_swapchain is about to create the new swapchain, having destroyed
\* the old one.
C37_Witness ==
    /\ pc = "create_swap_chain"
    /\ swapchain_ = NullHandle
    /\ Has("destroy:swapchain")
    /\ ~Has("create:swapchain")

\* C38: when control has left submit_one_time_commands, by return or by an
\* exception of the recording closure, the command buffer it allocated has
\* been freed: none is left allocated, or begun and never ended.  It fails
\* for an unsupported transition, which throws between begin and end.
C38_OneTimeBufferFreed ==
    (call.op \in DOMAIN OneTimeCommand /\ upc = "done") =>
        /\ "command_buffer" \notin live
        /\ ("begin" \in Range(steps) => "end" \in Range(steps))

====
